---- MODULE Spec2Model ----
(***************************************************************************)
(* Model of the PTZ command router (per-device mutex + conflation queue,   *)
(* STOP priority bypass, per-device watchdog) together with the parts of   *)
(* the protocol adapters that decide what reaches the wire.                *)
(*                                                                         *)
(* A "send" below is one invocation of handler.sendCommand by the router.  *)
(* Each invocation is recorded in log[ip]; the record's field wire tells   *)
(* whether the adapter produced a PTZ wire transmission attempt for it     *)
(* (the Panasonic adapter skips a duplicate, the other adapters refuse an  *)
(* action they do not know).                                               *)
(*                                                                         *)
(* Around the router the module models the relay listener of the room      *)
(* session with its password check, the command sanitizer, the discovery   *)
(* aggregator and the device registry.  Each part has its own              *)
(* specification; a specification leaves the other parts at rest.          *)
(***************************************************************************)
EXTENDS Integers, Sequences, FiniteSets, TLC

\* ---------------------------------------------------------------- bounds
MaxCmds == 3

\* ------------------------------------------------------------- constants
MAX_DELTA == 49
BASE_VAL == 50
VISCA_HEADER == 129

\* ------------------------------------------------------ the input domain
\* Device descriptors the registry may hold, and the order in which
\* Object.values enumerates their identifiers.
Descriptors ==
    [cam1 |-> [ip |-> "10.0.0.1", protocol |-> "panasonic"],
     cam2 |-> [ip |-> "10.0.0.2", protocol |-> "onvif"],
     cam3 |-> [ip |-> "10.0.0.3", protocol |-> "rtsp"],
     cam4 |-> [ip |-> "10.0.0.4", protocol |-> "panasonic"]]

RegistryIds == <<"cam1", "cam2", "cam3", "cam4">>

\* The protocol map of the router.
protocols == {"panasonic", "onvif", "visca", "ndi"}

Ips == {Descriptors[id].ip : id \in DOMAIN Descriptors}

\* Registry snapshots with a single camera, one per adapter family.
SingleRegistries == {{"cam1"}, {"cam2"}}

\* Actions the relay may deliver (the listener forwards the raw payload).
Actions == {"PAN_LEFT", "ZOOM_IN", "STOP", "PTZ_VECTOR", "PRESET_CALL"}

Speeds == {50}

Targets == {"ALL", "cam1", "cam2", "ghost"}

Commands == [action : Actions, speed : Speeds, target : Targets]

NoVector == <<>>

\* The speed of a command that carries none (cmd.speed is undefined).
NoSpeed == -1

\* ------------------------------------------------ string helper (prefix)
\* String.prototype.startsWith over the modelled action universe.
StartsWith(action, prefix) ==
    CASE prefix = "PAN"  -> action \in {"PAN_LEFT", "PAN_RIGHT"}
      [] prefix = "TILT" -> action \in {"TILT_UP", "TILT_DOWN"}
      [] prefix = "ZOOM" -> action \in {"ZOOM_IN", "ZOOM_OUT", "ZOOM_STOP"}
      [] OTHER -> FALSE

\* The condition that arms the watchdog.
IsMove(action) ==
    action # "STOP" /\ (StartsWith(action, "PAN") \/ StartsWith(action, "TILT")
                         \/ StartsWith(action, "ZOOM"))

\* --------------------------------------------------- Panasonic encoding
clamp(num, min, max) ==
    LET lo == IF num > min THEN num ELSE min
    IN  IF lo < max THEN lo ELSE max

\* Math.round of the rational n/d (d > 0): floor(n/d + 1/2).
RoundDiv(n, d) == (2 * n + d) \div (2 * d)

\* Vectors carry hundredths: [x |-> 60, y |-> -60] is (0.6, -0.6).
Abs(n) == IF n < 0 THEN -n ELSE n

\* Variant: the deadzone is 0.1, as it was before it was narrowed.
mapCommandToCgiWideDeadzone(action, speed, vector) ==
    LET safeSpeed == clamp(speed, 0, 100)
        delta == RoundDiv(safeSpeed * MAX_DELTA, 100)
    IN  IF action = "PTZ_VECTOR" /\ vector # NoVector
        THEN IF Abs(vector.x) < 10 /\ Abs(vector.y) < 10
             THEN <<"PTS", 50, 50>>
             ELSE <<"PTS",
                    clamp(BASE_VAL + RoundDiv(vector.x * safeSpeed * MAX_DELTA, 10000), 1, 99),
                    clamp(BASE_VAL + RoundDiv(vector.y * safeSpeed * MAX_DELTA, 10000), 1, 99)>>
        ELSE CASE action = "PAN_LEFT"    -> <<"PTS", clamp(BASE_VAL - delta, 1, 99), clamp(BASE_VAL, 1, 99)>>
               [] action = "PAN_RIGHT"   -> <<"PTS", clamp(BASE_VAL + delta, 1, 99), clamp(BASE_VAL, 1, 99)>>
               [] action = "TILT_UP"     -> <<"PTS", clamp(BASE_VAL, 1, 99), clamp(BASE_VAL + delta, 1, 99)>>
               [] action = "TILT_DOWN"   -> <<"PTS", clamp(BASE_VAL, 1, 99), clamp(BASE_VAL - delta, 1, 99)>>
               [] action = "ZOOM_IN"     -> <<"Z", BASE_VAL + delta>>
               [] action = "ZOOM_OUT"    -> <<"Z", BASE_VAL - delta>>
               [] action = "ZOOM_STOP"   -> <<"Z", 50>>
               [] action = "STOP"        -> <<"PTS", 50, 50>>
               [] action = "PRESET_CALL" -> <<"R", speed>>
               [] action = "PRESET_SET"  -> <<"M", speed>>
               [] OTHER                  -> <<"PTS", clamp(BASE_VAL, 1, 99), clamp(BASE_VAL, 1, 99)>>

\* The encoded command as <<form, value, ...>>; pad() prints each value
\* with two digits.
mapCommandToCgi(action, speed, vector) ==
    LET safeSpeed == clamp(speed, 0, 100)
        \* speedFactor = safeSpeed * 49 / 100
        delta == RoundDiv(safeSpeed * MAX_DELTA, 100)
    IN  IF action = "PTZ_VECTOR" /\ vector # NoVector
        THEN IF Abs(vector.x) < 2 /\ Abs(vector.y) < 2
             THEN <<"PTS", 50, 50>>
             ELSE <<"PTS",
                    clamp(BASE_VAL + RoundDiv(vector.x * safeSpeed * MAX_DELTA, 10000), 1, 99),
                    clamp(BASE_VAL + RoundDiv(vector.y * safeSpeed * MAX_DELTA, 10000), 1, 99)>>
        ELSE CASE action = "PAN_LEFT"    -> <<"PTS", clamp(BASE_VAL - delta, 1, 99), clamp(BASE_VAL, 1, 99)>>
               [] action = "PAN_RIGHT"   -> <<"PTS", clamp(BASE_VAL + delta, 1, 99), clamp(BASE_VAL, 1, 99)>>
               [] action = "TILT_UP"     -> <<"PTS", clamp(BASE_VAL, 1, 99), clamp(BASE_VAL + delta, 1, 99)>>
               [] action = "TILT_DOWN"   -> <<"PTS", clamp(BASE_VAL, 1, 99), clamp(BASE_VAL - delta, 1, 99)>>
               [] action = "ZOOM_IN"     -> <<"Z", BASE_VAL + delta>>
               [] action = "ZOOM_OUT"    -> <<"Z", BASE_VAL - delta>>
               [] action = "ZOOM_STOP"   -> <<"Z", 50>>
               [] action = "STOP"        -> <<"PTS", 50, 50>>
               [] action = "PRESET_CALL" -> <<"R", speed>>
               [] action = "PRESET_SET"  -> <<"M", speed>>
               [] OTHER                  -> <<"PTS", clamp(BASE_VAL, 1, 99), clamp(BASE_VAL, 1, 99)>>

\* Math.round(num).toString().padStart(2, '0') of an integer: shorter
\* strings are filled up, longer ones are left as they are.
pad(num) ==
    LET str == ToString(num)
    IN  IF Len(str) < 2 THEN "0" \o str ELSE str

\* The command code as the template literals of mapCommandToCgi print it.
CgiCode(cgi) ==
    IF cgi[1] = "PTS"
    THEN "PTS" \o pad(cgi[2]) \o pad(cgi[3])
    ELSE cgi[1] \o pad(cgi[2])

\* Does the encoded command move an axis?
CgiMoves(cgi) ==
    \/ cgi[1] = "PTS" /\ (cgi[2] # 50 \/ cgi[3] # 50)
    \/ cgi[1] = "Z" /\ cgi[2] # 50

\* Actions the ONVIF adapter translates into a PTZ operation when it is
\* given no vector.
OnvifKnown ==
    {"PAN_LEFT", "PAN_RIGHT", "TILT_UP", "TILT_DOWN", "ZOOM_IN", "ZOOM_OUT",
     "STOP", "PRESET_CALL", "PRESET_SET"}

OnvifMoves == {"PAN_LEFT", "PAN_RIGHT", "TILT_UP", "TILT_DOWN", "ZOOM_IN", "ZOOM_OUT"}

\* ----------------------------------------------------------------- state
VARIABLES
    devices,         \* identifiers present in the registry
    seq,             \* number of commands handed to sendPtzCommand so far
    deviceBusy,      \* ip -> BOOLEAN
    devicePending,   \* ip -> {} or {the pending entry}
    deviceWatchdogs, \* ip -> {} or {timer handle}
    timers,          \* scheduled, not yet cleared or fired timeouts
    inflight,        \* adapter sends whose promise has not settled
    lastCmds,        \* Panasonic adapter: ip -> {} or {last encoded command}
    log,             \* ip -> sequence of handler.sendCommand invocations
    unresolved,      \* promises awaited by sendPtzCommand calls
    arrived,         \* ip -> sequence of commands dispatched to the device
    displaced,       \* ip -> pending entries overwritten or deleted
    forcedSince,     \* ip -> forced stops since the last command for ip
    outcomes,        \* the latest observed promise outcome of each device
    roomId,          \* main.js: configured room, or "null"
    roomPassword,    \* main.js: locally held room password, or "null"
    activeRoomRef,   \* main.js: room the active reference points to, or "null"
    attached,        \* rooms whose commands listener is attached
    stopping,        \* stopFirebaseListener calls suspended at their await
    relayed,         \* number of commands delivered to a commands listener
    lastRelayed,     \* {} or {the latest delivery as the listener judged it}
    payload,         \* the value handed to sanitizeCommand
    sanitized,       \* {} or {what sanitizeCommand returned}
    results,         \* the settled results of the four discover() calls
    allDevices,      \* {} or {what discoverAll returned}
    discoveredDevices, \* discovery.js: id -> {} or {registry entry}
    cgiCall,         \* panasonic.js: the call whose command code is built
    cgiParams,       \* {} or {the command code put into the request URL}
    deviceCache,     \* onvif.js: cache key -> {} or {cached connection}
    connections,     \* onvif.js: the OnvifDevice objects created so far
    onvifCalls,      \* onvif.js: the sendCommand and stop calls so far
    ndiCall,         \* ndi.js: the sendCommand call and what its requests meet
    ndiRequests,     \* ndi.js: the requests the call made, in order
    ndiReturned,     \* ndi.js: {} or {what the call returned}
    viscaCalls,      \* VISCA: the calls of sendCommand and stop so far
    datagrams,       \* VISCA: the sendViscaUdp calls so far, in order
    viscaReturned    \* VISCA: what the finished calls returned, in order

routerVars == <<devices, seq, deviceBusy, devicePending, deviceWatchdogs, timers, inflight,
                lastCmds, log, unresolved, arrived, displaced, forcedSince, outcomes>>

gateVars == <<roomId, roomPassword, activeRoomRef, attached, stopping, relayed, lastRelayed>>

sanitizeVars == <<payload, sanitized>>

discoveryVars == <<results, allDevices, discoveredDevices>>

encoderVars == <<cgiCall, cgiParams>>

onvifVars == <<deviceCache, connections, onvifCalls>>

ndiVars == <<ndiCall, ndiRequests, ndiReturned>>

viscaVars == <<viscaCalls, datagrams, viscaReturned>>

adapterVars == <<encoderVars, onvifVars, ndiVars, viscaVars>>

vars == <<routerVars, gateVars, sanitizeVars, discoveryVars, adapterVars>>

\* The router and adapter state as one value, threaded through the calls.
State ==
    [deviceBusy |-> deviceBusy, devicePending |-> devicePending,
     deviceWatchdogs |-> deviceWatchdogs, timers |-> timers,
     inflight |-> inflight, lastCmds |-> lastCmds, log |-> log,
     unresolved |-> unresolved, arrived |-> arrived,
     displaced |-> displaced, forcedSince |-> forcedSince,
     outcomes |-> outcomes]

Install(s) ==
    /\ deviceBusy' = s.deviceBusy
    /\ devicePending' = s.devicePending
    /\ deviceWatchdogs' = s.deviceWatchdogs
    /\ timers' = s.timers
    /\ inflight' = s.inflight
    /\ lastCmds' = s.lastCmds
    /\ log' = s.log
    /\ unresolved' = s.unresolved
    /\ arrived' = s.arrived
    /\ displaced' = s.displaced
    /\ forcedSince' = s.forcedSince
    /\ outcomes' = s.outcomes

ProtocolOf(ip) ==
    LET id == CHOOSE i \in DOMAIN Descriptors : Descriptors[i].ip = ip
    IN  Descriptors[id].protocol

\* ------------------------------------------------------------- adapters
\* The serialized-path sends of a device that have not settled yet.
ExecInFlight(s, ip) ==
    {[seq |-> f.seq, forced |-> f.forced] :
        f \in {g \in s.inflight : g.ip = ip /\ g.kind = "exec"}}

\* One handler.sendCommand invocation as it is recorded in log.
LogEntry(s, ip, c, kind, wire, moves) ==
    [seq |-> c.seq, action |-> c.action, speed |-> c.speed, forced |-> c.forced,
     kind |-> kind, wire |-> wire, moves |-> moves, behind |-> ExecInFlight(s, ip)]

\* handler.sendCommand(device, action, speed) up to its first await.
\* c = [seq, action, speed, forced]; kind is "exec" for the serialized
\* path and "bypass" for the STOP bypass.  The router passes a number, so
\* the adapter sees no vector.
PanasonicSendCommand(s, ip, c, kind, speed) ==
    LET cgi == mapCommandToCgi(c.action, speed, NoVector)
        skipped == s.lastCmds[ip] = {cgi}
    IN  [s EXCEPT !.lastCmds[ip] = {cgi},
                  !.log[ip] = Append(@, LogEntry(s, ip, [c EXCEPT !.speed = speed],
                                                 kind, ~skipped,
                                                 ~skipped /\ CgiMoves(cgi))),
                  !.inflight = @ \cup {[ip |-> ip, seq |-> c.seq,
                                        forced |-> c.forced, kind |-> kind]}]

OnvifSendCommand(s, ip, c, kind, speed) ==
    [s EXCEPT !.log[ip] = Append(@, LogEntry(s, ip, [c EXCEPT !.speed = speed], kind,
                                             c.action \in OnvifKnown,
                                             c.action \in OnvifMoves)),
              !.inflight = @ \cup {[ip |-> ip, seq |-> c.seq,
                                    forced |-> c.forced, kind |-> kind]}]

\* protocols[device.protocol].sendCommand(device, cmd.action, cmd.speed || 50)
HandlerSendCommand(s, ip, c, kind) ==
    LET speed == IF c.speed = 0 \/ c.speed = NoSpeed THEN 50 ELSE c.speed
    IN  IF ProtocolOf(ip) = "panasonic"
        THEN PanasonicSendCommand(s, ip, c, kind, speed)
        ELSE OnvifSendCommand(s, ip, c, kind, speed)

\* Variant: executeCommand starts the send without taking the lock.
executeCommandNoLock(s, ip, c) ==
    HandlerSendCommand(s, ip, c, "exec")

\* --------------------------------------------------------------- router
\* executeCommand up to its await: take the lock and start the send.
executeCommand(s, ip, c) ==
    HandlerSendCommand([s EXCEPT !.deviceBusy[ip] = TRUE], ip, c, "exec")

\* Variant: a busy device keeps the command that is already pending.
queueCommandKeepsOldest(s, ip, c) ==
    IF s.deviceBusy[ip]
    THEN IF c.action = "STOP"
         THEN HandlerSendCommand(
                  [s EXCEPT !.devicePending[ip] = {},
                            !.displaced[ip] = @ \cup s.devicePending[ip]],
                  ip, c, "bypass")
         ELSE IF s.devicePending[ip] # {}
              THEN [s EXCEPT !.displaced[ip] = @ \cup {c}]
              ELSE [s EXCEPT !.devicePending[ip] = {c}]
    ELSE executeCommand(s, ip, c)

\* Variant: the STOP bypass leaves the pending slot alone.
queueCommandKeepsPending(s, ip, c) ==
    IF s.deviceBusy[ip]
    THEN IF c.action = "STOP"
         THEN HandlerSendCommand(s, ip, c, "bypass")
         ELSE [s EXCEPT !.devicePending[ip] = {c},
                        !.displaced[ip] = @ \cup s.devicePending[ip]]
    ELSE executeCommand(s, ip, c)

\* Variant: a STOP for a busy device is sent at once and the command it
\* found pending is kept for later.
queueCommandStopSparesPending(s, ip, c) ==
    IF s.deviceBusy[ip]
    THEN IF c.action = "STOP"
         THEN HandlerSendCommand(s, ip, c, "bypass")
         ELSE [s EXCEPT !.devicePending[ip] = {c},
                        !.displaced[ip] = @ \cup s.devicePending[ip]]
    ELSE HandlerSendCommand([s EXCEPT !.deviceBusy[ip] = TRUE], ip, c, "exec")

queueCommand(s, ip, c) ==
    IF s.deviceBusy[ip]
    THEN IF c.action = "STOP"
         THEN HandlerSendCommand(
                  [s EXCEPT !.devicePending[ip] = {},
                            !.displaced[ip] = @ \cup s.devicePending[ip]],
                  ip, c, "bypass")
         ELSE [s EXCEPT !.devicePending[ip] = {c},
                        !.displaced[ip] = @ \cup s.devicePending[ip]]
    ELSE executeCommand(s, ip, c)

\* Variant: a new timer is armed without clearing the previous one.
resetWatchdogNoClear(s, ip, c) ==
    IF IsMove(c.action)
    THEN [s EXCEPT !.deviceWatchdogs[ip] = {c.seq},
                   !.timers = @ \cup {[ip |-> ip, id |-> c.seq]}]
    ELSE [s EXCEPT !.timers = @ \ {[ip |-> ip, id |-> t] : t \in s.deviceWatchdogs[ip]},
                   !.deviceWatchdogs[ip] = {}]

\* Variant: only a motion command clears the previous timer.
resetWatchdogOnlyOnMove(s, ip, c) ==
    IF IsMove(c.action)
    THEN [s EXCEPT !.timers = (@ \ {[ip |-> ip, id |-> t] : t \in s.deviceWatchdogs[ip]})
                                \cup {[ip |-> ip, id |-> c.seq]},
                   !.deviceWatchdogs[ip] = {c.seq}]
    ELSE s

\* Variant: one watchdog for all devices, as in the first router.
resetWatchdogGlobal(s, ip, c) ==
    LET cleared == [s EXCEPT !.timers = {},
                             !.deviceWatchdogs = [i \in Ips |-> {}]]
    IN  IF IsMove(c.action)
        THEN [cleared EXCEPT !.deviceWatchdogs[ip] = {c.seq},
                             !.timers = @ \cup {[ip |-> ip, id |-> c.seq]}]
        ELSE cleared

\* The watchdog block of sendPtzCommand for one target.
resetWatchdog(s, ip, c) ==
    LET cleared == [s EXCEPT !.timers = @ \ {[ip |-> ip, id |-> t] : t \in s.deviceWatchdogs[ip]},
                             !.deviceWatchdogs[ip] = {}]
    IN  IF IsMove(c.action)
        THEN [cleared EXCEPT !.deviceWatchdogs[ip] = {c.seq},
                             !.timers = @ \cup {[ip |-> ip, id |-> c.seq]}]
        ELSE cleared

\* The body of targets.map for one device.  A device whose protocol has
\* no handler yields Promise.resolve(): a promise fulfilled with undefined.
dispatch(s, ip, c) ==
    LET noted == [s EXCEPT !.arrived[ip] = Append(@, [seq |-> c.seq, action |-> c.action,
                                                      behind |-> ExecInFlight(s, ip)]),
                           !.forcedSince[ip] = 0,
                           !.unresolved = @ \cup {[seq |-> c.seq, ip |-> ip]}]
    IN  IF ProtocolOf(ip) \notin protocols
        THEN [s EXCEPT !.outcomes = {o \in @ : o.ip # ip}
                                      \cup {[ip |-> ip, seq |-> c.seq, forced |-> FALSE,
                                              kind |-> "none", result |-> "undefined"]}]
        ELSE queueCommand(resetWatchdog(noted, ip, c), ip, c)

\* Target resolution: the registry entries a command goes to, in order.
RECURSIVE ObjectValues(_, _)
ObjectValues(reg, ids) ==
    IF ids = <<>> THEN <<>>
    ELSE IF Head(ids) \in reg
         THEN <<Descriptors[Head(ids)].ip>> \o ObjectValues(reg, Tail(ids))
         ELSE ObjectValues(reg, Tail(ids))

\* Variant: an identifier that is not in the registry falls back to all.
TargetsOfUnknownIsAll(cmd) ==
    IF cmd.target \in devices
    THEN <<Descriptors[cmd.target].ip>>
    ELSE ObjectValues(devices, RegistryIds)

\* cmd.target is "" when the command carries no target.
TargetsOf(cmd) ==
    IF cmd.target = "ALL" \/ cmd.target = ""
    THEN ObjectValues(devices, RegistryIds)
    ELSE IF cmd.target \in devices
         THEN <<Descriptors[cmd.target].ip>>
         ELSE <<>>

RECURSIVE dispatchAll(_, _, _)
dispatchAll(s, ips, c) ==
    IF ips = <<>> THEN s
    ELSE dispatchAll(dispatch(s, Head(ips), c), Tail(ips), c)

\* ------------------------------------------------------ JavaScript values
\* A value as the relay delivers it (JSON): tagged with its kind.
JsUndefined == [type |-> "undefined"]

JsNull == [type |-> "null"]

JsArray == [type |-> "array"]

JsNumber(n) == [type |-> "number", num |-> n]

JsString(str) == [type |-> "string", str |-> str]

\* typeof v
TypeOf(v) ==
    IF v.type \in {"null", "array", "object"} THEN "object" ELSE v.type

\* !v
Falsy(v) ==
    \/ v.type \in {"undefined", "null"}
    \/ v.type = "number" /\ v.num = 0
    \/ v.type = "string" /\ v.str = ""

\* v.action, v.speed, v.target of a non-null value
Member(v, name) ==
    IF v.type = "object"
    THEN CASE name = "action" -> v.action
           [] name = "speed"  -> v.speed
           [] name = "target" -> v.target
    ELSE JsUndefined

\* ------------------------------------------------------- parts at rest
InitGate ==
    /\ roomId = "null"
    /\ roomPassword = "null"
    /\ activeRoomRef = "null"
    /\ attached = {}
    /\ stopping = 0
    /\ relayed = 0
    /\ lastRelayed = {}

SanitizerAtRest ==
    /\ payload = JsUndefined
    /\ sanitized = {}

\* Identifiers the registry may use as keys.
RegistryKeys == {"10001", "10002", "10003", "urn-1", "urn-2"}

InitRegistry ==
    discoveredDevices = [id \in RegistryKeys |-> {}]

DiscoveryAtRest ==
    /\ results = <<>>
    /\ allDevices = {}
    /\ InitRegistry

\* ONVIF device descriptors; port 0 stands for a descriptor without port.
OnvifDevices ==
    [ip : {ip \in Ips : ProtocolOf(ip) = "onvif"}, port : {0, 80, 8080}]

\* `${deviceInfo.ip}:${deviceInfo.port || 80}`
CacheKey(deviceInfo) ==
    <<deviceInfo.ip, IF deviceInfo.port = 0 THEN 80 ELSE deviceInfo.port>>

CacheKeys == {CacheKey(d) : d \in OnvifDevices}

EncoderAtRest ==
    /\ cgiCall = [fn |-> "none"]
    /\ cgiParams = {}

OnvifAtRest ==
    /\ deviceCache = [k \in CacheKeys |-> {}]
    /\ connections = <<>>
    /\ onvifCalls = <<>>

NdiAtRest ==
    /\ ndiCall = [action |-> "none"]
    /\ ndiRequests = <<>>
    /\ ndiReturned = {}

ViscaAtRest ==
    /\ viscaCalls = <<>>
    /\ datagrams = <<>>
    /\ viscaReturned = <<>>

AdaptersAtRest ==
    /\ EncoderAtRest
    /\ OnvifAtRest
    /\ NdiAtRest
    /\ ViscaAtRest

\* --------------------------------------------------------------- actions
InitRouter ==
    /\ seq = 0
    /\ deviceBusy = [ip \in Ips |-> FALSE]
    /\ devicePending = [ip \in Ips |-> {}]
    /\ deviceWatchdogs = [ip \in Ips |-> {}]
    /\ timers = {}
    /\ inflight = {}
    /\ lastCmds = [ip \in Ips |-> {}]
    /\ log = [ip \in Ips |-> <<>>]
    /\ unresolved = {}
    /\ arrived = [ip \in Ips |-> <<>>]
    /\ displaced = [ip \in Ips |-> {}]
    /\ forcedSince = [ip \in Ips |-> 0]
    /\ outcomes = {}

Init ==
    /\ devices \in SingleRegistries
    /\ InitRouter
    /\ InitGate
    /\ AdaptersAtRest
    /\ SanitizerAtRest
    /\ DiscoveryAtRest

\* A command reaches sendPtzCommand.
SendPtzCommand(cmd) ==
    /\ seq < MaxCmds
    /\ seq' = seq + 1
    /\ UNCHANGED devices
    /\ Install(dispatchAll(State, TargetsOf(cmd),
                           [seq |-> seq + 1, action |-> cmd.action,
                            speed |-> cmd.speed, forced |-> FALSE]))

\* Variant: the callback leaves its handle in deviceWatchdogs.
WatchdogFireKeepsHandle(t) ==
    /\ t \in timers
    /\ LET fired == [State EXCEPT !.timers = @ \ {t},
                                  !.forcedSince[t.ip] = @ + 1]
       IN  Install(queueCommand(fired, t.ip,
                                [seq |-> t.id, action |-> "STOP",
                                 speed |-> 50, forced |-> TRUE]))
    /\ UNCHANGED <<devices, seq>>

\* A watchdog timeout elapses: the callback queues a STOP for its device.
WatchdogFire(t) ==
    /\ t \in timers
    /\ LET fired == [State EXCEPT !.timers = @ \ {t},
                                  !.forcedSince[t.ip] = @ + 1]
           stopped == queueCommand(fired, t.ip,
                                   [seq |-> t.id, action |-> "STOP",
                                    speed |-> 50, forced |-> TRUE])
       IN  Install([stopped EXCEPT !.deviceWatchdogs[t.ip] = {}])
    /\ UNCHANGED <<devices, seq>>

\* Variant: the finally block releases the lock and forgets the pending
\* command.
SendCompleteDropsPending(f) ==
    /\ f \in inflight
    /\ LET settled == [State EXCEPT
                           !.inflight = @ \ {f},
                           !.unresolved = IF f.forced THEN @
                                          ELSE @ \ {[seq |-> f.seq, ip |-> f.ip]}]
       IN  IF f.kind = "bypass"
           THEN Install(settled)
           ELSE Install([settled EXCEPT !.devicePending[f.ip] = {},
                                        !.deviceBusy[f.ip] = FALSE])
    /\ UNCHANGED <<devices, seq>>

\* Variant: the finally block releases the lock without looking at the
\* pending slot.
SendCompleteLeavesPending(f) ==
    /\ f \in inflight
    /\ LET settled == [State EXCEPT
                           !.inflight = @ \ {f},
                           !.unresolved = IF f.forced THEN @
                                          ELSE @ \ {[seq |-> f.seq, ip |-> f.ip]}]
       IN  IF f.kind = "bypass"
           THEN Install(settled)
           ELSE Install([settled EXCEPT !.deviceBusy[f.ip] = FALSE])
    /\ UNCHANGED <<devices, seq>>

\* An adapter send settles (fulfilled or failed alike): its promise is
\* resolved, and on the serialized path the finally block runs.
SendComplete(f) ==
    /\ f \in inflight
    /\ LET settled == [State EXCEPT
                           !.inflight = @ \ {f},
                           !.unresolved = IF f.forced THEN @
                                          ELSE @ \ {[seq |-> f.seq, ip |-> f.ip]}]
           next == settled.devicePending[f.ip]
           taken == [settled EXCEPT !.devicePending[f.ip] = {}]
       IN  IF f.kind = "bypass"
           THEN Install(settled)
           ELSE IF next # {}
                THEN Install(executeCommand(taken, f.ip, CHOOSE c \in next : TRUE))
                ELSE Install([taken EXCEPT !.deviceBusy[f.ip] = FALSE])
    /\ UNCHANGED <<devices, seq>>

Next ==
    \/ \E cmd \in Commands :
          SendPtzCommand(cmd) /\ UNCHANGED <<gateVars, sanitizeVars, discoveryVars, adapterVars>>
    \/ \E t \in timers :
          WatchdogFire(t) /\ UNCHANGED <<gateVars, sanitizeVars, discoveryVars, adapterVars>>
    \/ \E f \in inflight :
          SendComplete(f) /\ UNCHANGED <<gateVars, sanitizeVars, discoveryVars, adapterVars>>

Spec == Init /\ [][Next]_vars

\* Timers elapse and adapter sends settle (every adapter bounds its
\* requests with a timeout).
FairSpec ==
    /\ Spec
    /\ WF_vars(\E t \in timers : WatchdogFire(t))
    /\ WF_vars(\E f \in inflight : SendComplete(f))

\* ------------------------------------------- observed send outcomes
\* The handler.sendCommand invocation an in-flight send belongs to.
SendOf(f) ==
    LET i == CHOOSE j \in 1..Len(log[f.ip]) :
                 /\ log[f.ip][j].seq = f.seq
                 /\ log[f.ip][j].forced = f.forced
                 /\ log[f.ip][j].kind = f.kind
    IN  log[f.ip][i]

\* What the adapter's promise can fulfil with: a transmitted request
\* succeeds or fails ({success: false, error}); a duplicate is skipped by
\* the Panasonic adapter; an unknown action is refused by the others.
ResultsOf(f) ==
    IF SendOf(f).wire THEN {"ok", "failed"}
    ELSE IF ProtocolOf(f.ip) = "panasonic" THEN {"skipped"}
    ELSE {"refused"}

\* Variant: after a failed send the finally block does not run.
SendSettlesFailureKeepsLock(f, result) ==
    /\ f \in inflight
    /\ result \in ResultsOf(f)
    /\ LET settled == [State EXCEPT
                           !.inflight = @ \ {f},
                           !.unresolved = IF f.forced THEN @
                                          ELSE @ \ {[seq |-> f.seq, ip |-> f.ip]},
                           !.outcomes = {o \in @ : o.ip # f.ip}
                                          \cup {[ip |-> f.ip, seq |-> f.seq,
                                                 forced |-> f.forced, kind |-> f.kind,
                                                 result |-> result]}]
           next == settled.devicePending[f.ip]
           taken == [settled EXCEPT !.devicePending[f.ip] = {}]
       IN  IF f.kind # "exec" \/ result = "failed"
           THEN Install(settled)
           ELSE IF next # {}
                THEN Install(executeCommand(taken, f.ip, CHOOSE c \in next : TRUE))
                ELSE Install([taken EXCEPT !.deviceBusy[f.ip] = FALSE])
    /\ UNCHANGED <<devices, seq>>

\* Variant: the finally block starts the pending command but never
\* releases the lock.
SendSettlesKeepsLock(f, result) ==
    /\ f \in inflight
    /\ result \in ResultsOf(f)
    /\ LET settled == [State EXCEPT
                           !.inflight = @ \ {f},
                           !.unresolved = IF f.forced THEN @
                                          ELSE @ \ {[seq |-> f.seq, ip |-> f.ip]},
                           !.outcomes = {o \in @ : o.ip # f.ip}
                                          \cup {[ip |-> f.ip, seq |-> f.seq,
                                                 forced |-> f.forced, kind |-> f.kind,
                                                 result |-> result]}]
           next == settled.devicePending[f.ip]
           taken == [settled EXCEPT !.devicePending[f.ip] = {}]
       IN  IF f.kind # "exec"
           THEN Install(settled)
           ELSE IF next # {}
                THEN Install(executeCommand(taken, f.ip, CHOOSE c \in next : TRUE))
                ELSE Install(taken)
    /\ UNCHANGED <<devices, seq>>

\* An adapter send settles with an observed result: SendComplete, with
\* the value the promise resolves to recorded in outcomes.  Only a send of
\* the serialized path runs the finally block of executeCommand.
SendSettles(f, result) ==
    /\ f \in inflight
    /\ result \in ResultsOf(f)
    /\ LET settled == [State EXCEPT
                           !.inflight = @ \ {f},
                           !.unresolved = IF f.forced THEN @
                                          ELSE @ \ {[seq |-> f.seq, ip |-> f.ip]},
                           !.outcomes = {o \in @ : o.ip # f.ip}
                                          \cup {[ip |-> f.ip, seq |-> f.seq,
                                                 forced |-> f.forced, kind |-> f.kind,
                                                 result |-> result]}]
           next == settled.devicePending[f.ip]
           taken == [settled EXCEPT !.devicePending[f.ip] = {}]
       IN  IF f.kind # "exec"
           THEN Install(settled)
           ELSE IF next # {}
                THEN Install(executeCommand(taken, f.ip, CHOOSE c \in next : TRUE))
                ELSE Install([taken EXCEPT !.deviceBusy[f.ip] = FALSE])
    /\ UNCHANGED <<devices, seq>>

\* ------------------------------------- the Panasonic adapter by itself
MaxCalls == 3

PanasonicIps == {ip \in Ips : ProtocolOf(ip) = "panasonic"}

\* PAN_LEFT at speed 1 rounds to no movement and encodes like STOP.
AdapterActions == {"PAN_LEFT", "STOP"}

AdapterSpeeds == {1, 50}

\* sendCommand(device, action, speed) called directly.
AdapterSend(ip, action, speed) ==
    /\ seq < MaxCalls
    /\ seq' = seq + 1
    /\ Install(PanasonicSendCommand(State, ip,
                                    [seq |-> seq + 1, action |-> action,
                                     speed |-> speed, forced |-> FALSE],
                                    "direct", speed))
    /\ UNCHANGED devices

\* Variant: stop leaves the last command of the device in place.
AdapterStopKeepsMemory(ip) ==
    /\ seq < MaxCalls
    /\ seq' = seq + 1
    /\ LET c == [seq |-> seq + 1, action |-> "STOP", speed |-> 50, forced |-> FALSE]
       IN  Install([State EXCEPT
                        !.log[ip] = Append(@, LogEntry(State, ip, c, "stop", TRUE, FALSE)),
                        !.inflight = @ \cup {[ip |-> ip, seq |-> c.seq,
                                              forced |-> FALSE, kind |-> "stop"]}])
    /\ UNCHANGED devices

\* stop(device): forget the device's last command, request P50T50Z50.
AdapterStop(ip) ==
    /\ seq < MaxCalls
    /\ seq' = seq + 1
    /\ LET c == [seq |-> seq + 1, action |-> "STOP", speed |-> 50, forced |-> FALSE]
       IN  Install([State EXCEPT
                        !.lastCmds[ip] = {},
                        !.log[ip] = Append(@, LogEntry(State, ip, c, "stop", TRUE, FALSE)),
                        !.inflight = @ \cup {[ip |-> ip, seq |-> c.seq,
                                              forced |-> FALSE, kind |-> "stop"]}])
    /\ UNCHANGED devices

PanasonicInit ==
    /\ devices = {}
    /\ InitRouter
    /\ InitGate
    /\ AdaptersAtRest
    /\ SanitizerAtRest
    /\ DiscoveryAtRest

PanasonicNext ==
    \/ \E ip \in PanasonicIps, action \in AdapterActions, speed \in AdapterSpeeds :
          AdapterSend(ip, action, speed)
          /\ UNCHANGED <<gateVars, sanitizeVars, discoveryVars, adapterVars>>
    \/ \E ip \in PanasonicIps :
          AdapterStop(ip) /\ UNCHANGED <<gateVars, sanitizeVars, discoveryVars, adapterVars>>
    \/ \E f \in inflight, result \in {"ok", "failed", "skipped"} :
          SendSettles(f, result) /\ UNCHANGED <<gateVars, sanitizeVars, discoveryVars, adapterVars>>

PanasonicSpec == PanasonicInit /\ [][PanasonicNext]_vars

\* --------------------------------------------- several devices at once
MaxFleetCmds == 2

\* A registry with a Panasonic camera, an ONVIF camera and an entry whose
\* protocol tag has no adapter.
FleetRegistry == {"cam1", "cam2", "cam3"}

\* Preset recalls and stops for all devices, for one camera, for the entry
\* without adapter and for an identifier that is not in the registry; a
\* pan for one camera or for an identifier that is not in the registry.
FleetCommands ==
    [action : {"PRESET_CALL", "STOP"}, speed : {50},
     target : {"ALL", "", "cam1", "cam2", "cam3", "ghost"}]
    \cup [action : {"PAN_LEFT"}, speed : {50}, target : {"cam1", "cam2", "ghost"}]

FleetInit ==
    /\ devices = FleetRegistry
    /\ InitRouter
    /\ InitGate
    /\ AdaptersAtRest
    /\ SanitizerAtRest
    /\ DiscoveryAtRest

FleetNext ==
    \/ \E cmd \in FleetCommands :
          /\ seq < MaxFleetCmds
          /\ SendPtzCommand(cmd)
          /\ UNCHANGED <<gateVars, sanitizeVars, discoveryVars, adapterVars>>
    \/ \E t \in timers :
          WatchdogFire(t) /\ UNCHANGED <<gateVars, sanitizeVars, discoveryVars, adapterVars>>
    \/ \E f \in inflight, result \in {"ok", "failed", "skipped", "refused"} :
          SendSettles(f, result) /\ UNCHANGED <<gateVars, sanitizeVars, discoveryVars, adapterVars>>

FleetSpec == FleetInit /\ [][FleetNext]_vars

\* ------------------------------------------------- the room session
MaxRelayed == 2

MaxTeardowns == 2

Rooms == {"r1", "r2"}

Passwords == {"pw1", "pw2"}

\* What a client can push under rooms/<room>/commands.  A payload without
\* a password reads as undefined.
RelayPayloads ==
    [password : Passwords \cup {"undefined"}, action : {"PAN_LEFT", "STOP", "REBOOT"},
     speed : {50}, target : {"ALL"}]

\* Variant: the comparison is loose (undefined == null).
PasswordMatchesLoose(cmdData) ==
    \/ cmdData.password = roomPassword
    \/ cmdData.password = "undefined" /\ roomPassword = "null"

\* cmdData.password === roomPassword
PasswordMatches(cmdData) ==
    cmdData.password = roomPassword

\* stopFirebaseListener() up to its await: the teardown is entered only
\* with a room and an active reference.
EntersTeardown == roomId # "null" /\ activeRoomRef # "null"

\* POST /api/config with both fields: stop the previous room (not
\* awaited), take the new credentials, start listening.  The root off()
\* of startFirebaseListener leaves the commands listener of the previous
\* reference attached.
ApiConfig(room, pass) ==
    /\ EntersTeardown => stopping < MaxTeardowns
    /\ stopping' = IF EntersTeardown THEN stopping + 1 ELSE stopping
    /\ roomId' = room
    /\ roomPassword' = pass
    /\ activeRoomRef' = room
    /\ attached' = attached \cup {room}
    /\ UNCHANGED <<relayed, lastRelayed>>

\* POST /api/stop: start the teardown, clear the credentials at once.
ApiStop ==
    /\ EntersTeardown => stopping < MaxTeardowns
    /\ stopping' = IF EntersTeardown THEN stopping + 1 ELSE stopping
    /\ roomId' = "null"
    /\ roomPassword' = "null"
    /\ UNCHANGED <<activeRoomRef, attached, relayed, lastRelayed>>

\* stopFirebaseListener() after its await.  removed tells whether
\* activeRoomRef.remove() fulfilled; the listeners detached are those of
\* the reference that is active now.
TeardownComplete(removed) ==
    /\ stopping > 0
    /\ stopping' = stopping - 1
    /\ attached' = IF removed /\ activeRoomRef # "null"
                   THEN attached \ {activeRoomRef}
                   ELSE attached
    /\ activeRoomRef' = "null"
    /\ roomId' = "null"
    /\ roomPassword' = "null"
    /\ UNCHANGED <<relayed, lastRelayed>>

\* The child_added handler of a commands listener.
RelayCommand(room, cmdData) ==
    /\ room \in attached
    /\ relayed < MaxRelayed
    /\ relayed' = relayed + 1
    /\ lastRelayed' = {[password |-> cmdData.password, held |-> roomPassword]}
    /\ UNCHANGED <<roomId, roomPassword, activeRoomRef, attached, stopping>>
    /\ IF PasswordMatches(cmdData)
       THEN SendPtzCommand(cmdData)
       ELSE UNCHANGED routerVars

GateInit ==
    /\ devices = {"cam1"}
    /\ InitRouter
    /\ InitGate
    /\ AdaptersAtRest
    /\ SanitizerAtRest
    /\ DiscoveryAtRest

GateNext ==
    \/ \E room \in Rooms, pass \in Passwords :
          ApiConfig(room, pass) /\ UNCHANGED <<routerVars, sanitizeVars, discoveryVars, adapterVars>>
    \/ ApiStop /\ UNCHANGED <<routerVars, sanitizeVars, discoveryVars, adapterVars>>
    \/ \E removed \in BOOLEAN :
          TeardownComplete(removed) /\ UNCHANGED <<routerVars, sanitizeVars, discoveryVars, adapterVars>>
    \/ \E room \in Rooms, cmdData \in RelayPayloads :
          RelayCommand(room, cmdData) /\ UNCHANGED <<sanitizeVars, discoveryVars, adapterVars>>
    \/ \E t \in timers :
          WatchdogFire(t) /\ UNCHANGED <<gateVars, sanitizeVars, discoveryVars, adapterVars>>
    \/ \E f \in inflight :
          SendComplete(f) /\ UNCHANGED <<gateVars, sanitizeVars, discoveryVars, adapterVars>>

GateSpec == GateInit /\ [][GateNext]_vars

\* ---------------------------------------------------- the sanitizer
ALLOWED_ACTIONS ==
    {"PAN_LEFT", "PAN_RIGHT", "TILT_UP", "TILT_DOWN", "STOP", "ZOOM_IN", "ZOOM_OUT",
     "PRESET_CALL"}

\* String.prototype.toUpperCase over the strings of ActionValues and of
\* LetterCases.
toUpperCase(str) ==
    CASE str = "pan_left" -> "PAN_LEFT"
      [] str = "Stop"     -> "STOP"
      [] str = "reboot"   -> "REBOOT"
      [] str = "pan_right" -> "PAN_RIGHT"
      [] str = "Tilt_Up"   -> "TILT_UP"
      [] str = "tilt_down" -> "TILT_DOWN"
      [] str = "zoom_in"   -> "ZOOM_IN"
      [] str = "Zoom_Out"  -> "ZOOM_OUT"
      [] str = "stop"      -> "STOP"
      [] str = "preset_call" -> "PRESET_CALL"
      [] str = "preset_set"  -> "PRESET_SET"
      [] str = "ptz_vector"  -> "PTZ_VECTOR"
      [] str = "focus_near"  -> "FOCUS_NEAR"
      [] OTHER            -> str

\* Math.max(lo, Math.min(hi, n))
MaxMin(lo, hi, n) ==
    LET m == IF n < hi THEN n ELSE hi
    IN  IF m > lo THEN m ELSE lo

\* Variant: the action is returned as it was given.
sanitizeCommandKeepsCase(cmd) ==
    IF Falsy(cmd) \/ TypeOf(cmd) # "object"
    THEN JsNull
    ELSE IF Falsy(Member(cmd, "action")) \/ TypeOf(Member(cmd, "action")) # "string"
    THEN JsNull
    ELSE IF toUpperCase(Member(cmd, "action").str) \notin ALLOWED_ACTIONS
    THEN JsNull
    ELSE [action |-> Member(cmd, "action").str,
          speed  |-> IF TypeOf(Member(cmd, "speed")) = "number"
                     THEN MaxMin(0, 100, Member(cmd, "speed").num)
                     ELSE 50,
          target |-> IF TypeOf(Member(cmd, "target")) = "string"
                     THEN Member(cmd, "target").str
                     ELSE "ALL"]

\* The result is JsNull or the object {action, speed, target}.
sanitizeCommand(cmd) ==
    IF Falsy(cmd) \/ TypeOf(cmd) # "object"
    THEN JsNull
    ELSE IF Falsy(Member(cmd, "action")) \/ TypeOf(Member(cmd, "action")) # "string"
    THEN JsNull
    ELSE IF toUpperCase(Member(cmd, "action").str) \notin ALLOWED_ACTIONS
    THEN JsNull
    ELSE [action |-> toUpperCase(Member(cmd, "action").str),
          speed  |-> IF TypeOf(Member(cmd, "speed")) = "number"
                     THEN MaxMin(0, 100, Member(cmd, "speed").num)
                     ELSE 50,
          target |-> IF TypeOf(Member(cmd, "target")) = "string"
                     THEN Member(cmd, "target").str
                     ELSE "ALL"]

\* The inputs: values that are no command object, and command objects
\* over these members.
ActionValues ==
    {JsUndefined, JsNull, JsString(""), JsNumber(5), JsString("REBOOT"), JsString("reboot"),
     JsString("pan_left"), JsString("PAN_LEFT"), JsString("Stop"), JsString("PTZ_VECTOR"),
     JsString("PRESET_CALL")}

SpeedValues ==
    {JsUndefined, JsString("fast"), JsNumber(-5), JsNumber(0), JsNumber(50), JsNumber(100),
     JsNumber(150)}

TargetValues == {JsUndefined, JsNumber(7), JsString("cam1"), JsString("")}

Payloads ==
    {JsUndefined, JsNull, JsNumber(0), JsNumber(7), JsString("STOP"), JsArray}
    \cup {[type |-> "object", action |-> a, speed |-> sp, target |-> t,
           password |-> JsString("pw1")] :
              a \in ActionValues, sp \in SpeedValues, t \in TargetValues}

SanitizeInit ==
    /\ payload \in Payloads
    /\ sanitized = {}
    /\ devices = {}
    /\ InitRouter
    /\ InitGate
    /\ AdaptersAtRest
    /\ DiscoveryAtRest

Sanitize ==
    /\ sanitized = {}
    /\ sanitized' = {sanitizeCommand(payload)}
    /\ UNCHANGED <<payload, routerVars, gateVars, discoveryVars, adapterVars>>

SanitizeNext == Sanitize

SanitizeSpec == SanitizeInit /\ [][SanitizeNext]_vars

\* ------------------------------------------- the allow-list, by action
\* Every action of the command vocabulary the adapters implement, and
\* actions outside it, each in capitals and in another letter case.
LetterCases ==
    {"PAN_LEFT", "pan_left", "PAN_RIGHT", "pan_right", "TILT_UP", "Tilt_Up",
     "TILT_DOWN", "tilt_down", "ZOOM_IN", "zoom_in", "ZOOM_OUT", "Zoom_Out",
     "STOP", "stop", "PRESET_CALL", "preset_call", "PRESET_SET", "preset_set",
     "PTZ_VECTOR", "ptz_vector", "FOCUS_NEAR", "focus_near", "REBOOT", "reboot"}

ActionPayloads ==
    {[type |-> "object", action |-> JsString(a), speed |-> sp, target |-> t,
      password |-> JsString("pw1")] :
         a \in LetterCases, sp \in {JsUndefined, JsNumber(50)},
         t \in {JsUndefined, JsString("cam1")}}

AllowInit ==
    /\ payload \in ActionPayloads
    /\ sanitized = {}
    /\ devices = {}
    /\ InitRouter
    /\ InitGate
    /\ AdaptersAtRest
    /\ DiscoveryAtRest

AllowNext == Sanitize

AllowSpec == AllowInit /\ [][AllowNext]_vars

\* ------------------------------------------------------ discovery
Addresses == {"10.0.0.1", "10.0.0.2", "10.0.0.3"}

\* ip.replace(/\./g, ''): the characters of ip without the dots.
RECURSIVE IpDigits(_)
IpDigits(ip) ==
    IF Len(ip) = 0 THEN ""
    ELSE IF SubSeq(ip, 1, 1) = "."
         THEN IpDigits(SubSeq(ip, 2, Len(ip)))
         ELSE SubSeq(ip, 1, 1) \o IpDigits(SubSeq(ip, 2, Len(ip)))

\* What the adapters report.  The Panasonic adapter derives mac from the
\* ip; the ONVIF adapter takes the last segment of the urn, or the
\* hostname's digits when the probe gave no urn; mac "" is an absent mac.
PanasonicReport(ip) ==
    [ip |-> ip, protocol |-> "panasonic", mac |-> IpDigits(ip)]

OnvifReport(ip, urn) ==
    [ip |-> ip, protocol |-> "onvif", mac |-> IF urn # "" THEN urn ELSE IpDigits(ip)]

PlainReport(ip, protocol) ==
    [ip |-> ip, protocol |-> protocol, mac |-> ""]

Fulfilled(value) == [status |-> "fulfilled", value |-> value]

Rejected == [status |-> "rejected", reason |-> "error"]

\* How the four discover() promises may settle, in the order of the
\* array given to Promise.allSettled: panasonic, onvif, visca, ndi.
DiscoverResults ==
    {<<p, o, v, n>> :
        p \in {Rejected, Fulfilled(<<>>), Fulfilled(<<PanasonicReport("10.0.0.1")>>),
               Fulfilled(<<PanasonicReport("10.0.0.1"), PanasonicReport("10.0.0.3")>>)},
        o \in {Rejected, Fulfilled(<<>>), Fulfilled(<<OnvifReport("10.0.0.2", "urn-2")>>),
               Fulfilled(<<OnvifReport("10.0.0.2", "")>>),
               Fulfilled(<<OnvifReport("10.0.0.1", "urn-1"), OnvifReport("10.0.0.2", "urn-2")>>)},
        v \in {Rejected, Fulfilled(<<>>), Fulfilled(<<PlainReport("10.0.0.3", "visca")>>)},
        n \in {Rejected, Fulfilled(<<>>)}}

\* results.forEach over the entries from index i on.
RECURSIVE pushFulfilled(_, _, _)
pushFulfilled(res, i, all) ==
    IF i > Len(res) THEN all
    ELSE IF res[i].status = "fulfilled"
         THEN pushFulfilled(res, i + 1, all \o res[i].value)
         ELSE pushFulfilled(res, i + 1, all)

\* Variant: the four promises are awaited with Promise.all.
discoverAllFailFast(res) ==
    IF \E i \in 1..Len(res) : res[i].status = "rejected"
    THEN Rejected
    ELSE Fulfilled(pushFulfilled(res, 1, <<>>))

\* discoverAll, as the settlement of the promise it returns.
discoverAll(res) ==
    Fulfilled(pushFulfilled(res, 1, <<>>))

DiscoverInit ==
    /\ results \in DiscoverResults
    /\ allDevices = {}
    /\ InitRegistry
    /\ devices = {}
    /\ InitRouter
    /\ InitGate
    /\ AdaptersAtRest
    /\ SanitizerAtRest

DiscoverAll ==
    /\ allDevices = {}
    /\ allDevices' = {discoverAll(results)}
    /\ UNCHANGED <<results, discoveredDevices, routerVars, gateVars, sanitizeVars, adapterVars>>

DiscoverNext == DiscoverAll

DiscoverSpec == DiscoverInit /\ [][DiscoverNext]_vars

\* ---------------------------------------------------- the registry
\* devices.forEach of autoDiscovery: each report replaces the entry under
\* its identifier.
RECURSIVE register(_, _)
register(reg, found) ==
    IF found = <<>> THEN reg
    ELSE LET device == Head(found)
             id == IF device.mac # "" THEN device.mac ELSE IpDigits(device.ip)
         IN  register([reg EXCEPT ![id] = {[id |-> id, ip |-> device.ip,
                                            protocol |-> IF device.protocol # ""
                                                         THEN device.protocol
                                                         ELSE "panasonic"]}],
                      Tail(found))

\* Variant: the registry is rebuilt from what the run found.
AutoDiscoveryRebuilds(res) ==
    /\ discoveredDevices' = IF discoverAll(res).status = "fulfilled"
                            THEN register([id \in DOMAIN discoveredDevices |-> {}],
                                          discoverAll(res).value)
                            ELSE discoveredDevices
    /\ UNCHANGED <<results, allDevices>>

\* One run of autoDiscovery; res is how the discover() calls settle.
AutoDiscovery(res) ==
    /\ discoveredDevices' = IF discoverAll(res).status = "fulfilled"
                            THEN register(discoveredDevices, discoverAll(res).value)
                            ELSE discoveredDevices
    /\ UNCHANGED <<results, allDevices>>

\* The device information /api/manual-ip and /api/probe-ip pass to
\* addDevice: no id, always a protocol.
DeviceInfos ==
    [id : {""}, ip : Addresses, protocol : {"panasonic", "onvif", "visca", "rtsp"}]

addDevice(reg, deviceInfo) ==
    LET id == IF deviceInfo.id # "" THEN deviceInfo.id ELSE IpDigits(deviceInfo.ip)
    IN  [reg EXCEPT ![id] = {[id |-> id, ip |-> deviceInfo.ip,
                              protocol |-> IF deviceInfo.protocol # ""
                                           THEN deviceInfo.protocol
                                           ELSE "panasonic"]}]

AddDevice(deviceInfo) ==
    /\ discoveredDevices' = addDevice(discoveredDevices, deviceInfo)
    /\ UNCHANGED <<results, allDevices>>

RegistryInit ==
    /\ DiscoveryAtRest
    /\ devices = {}
    /\ InitRouter
    /\ InitGate
    /\ AdaptersAtRest
    /\ SanitizerAtRest

RegistryNext ==
    \/ \E res \in DiscoverResults :
          AutoDiscovery(res) /\ UNCHANGED <<routerVars, gateVars, sanitizeVars, adapterVars>>
    \/ \E deviceInfo \in DeviceInfos :
          AddDevice(deviceInfo) /\ UNCHANGED <<routerVars, gateVars, sanitizeVars, adapterVars>>

RegistrySpec == RegistryInit /\ [][RegistryNext]_vars

\* ------------------------------------------- identifiers from addresses
\* Cameras of one network whose registry identifier is derived from the
\* address: found by the Panasonic probe, found without mac, or registered
\* by hand.
LanAddresses == {"10.0.1.11", "10.0.11.1", "10.0.1.1", "10.0.0.2", "10.0.0.3"}

LanResults ==
    {<<p, Fulfilled(<<>>), v, Rejected>> :
        p \in {Fulfilled(<<PanasonicReport(ip)>>) : ip \in LanAddresses}
              \cup {Fulfilled(<<PanasonicReport("10.0.1.11"), PanasonicReport("10.0.11.1")>>)},
        v \in {Fulfilled(<<>>)} \cup {Fulfilled(<<PlainReport(ip, "visca")>>) : ip \in LanAddresses}}

LanInit ==
    /\ results = <<>>
    /\ allDevices = {}
    /\ discoveredDevices = [id \in {IpDigits(ip) : ip \in LanAddresses} |-> {}]
    /\ devices = {}
    /\ InitRouter
    /\ InitGate
    /\ AdaptersAtRest
    /\ SanitizerAtRest

LanNext ==
    \/ \E res \in LanResults :
          AutoDiscovery(res) /\ UNCHANGED <<routerVars, gateVars, sanitizeVars, adapterVars>>
    \/ \E deviceInfo \in [id : {""}, ip : LanAddresses,
                           protocol : {"panasonic", "onvif"}] :
          AddDevice(deviceInfo) /\ UNCHANGED <<routerVars, gateVars, sanitizeVars, adapterVars>>

LanSpec == LanInit /\ [][LanNext]_vars

\* ------------------------------------- the Panasonic command encoding
\* Axis values in hundredths: inside and on the edge of the deadzone,
\* rounding ties (0.5 at speed 100, 1.0 at speed 50) and values outside
\* the unit interval.
VectorAxis == {-150, -100, -60, -50, -5, -2, -1, 0, 1, 2, 5, 50, 60, 100, 150}

Vectors == [x : VectorAxis, y : VectorAxis]

\* The actions of the switch, a vector action without vector and an
\* action the switch does not know.
CgiActions ==
    {"PAN_LEFT", "PAN_RIGHT", "TILT_UP", "TILT_DOWN", "ZOOM_IN", "ZOOM_OUT",
     "ZOOM_STOP", "STOP", "PRESET_CALL", "PRESET_SET", "PTZ_VECTOR", "FOCUS_NEAR"}

\* What the adapter builds a command code for: a sendCommand call with a
\* speed or preset number, one with a vector, and a stop call.
CgiCalls ==
    [fn : {"mapCommandToCgi"}, action : CgiActions, speed : 0..100, vector : {NoVector}]
    \cup [fn : {"mapCommandToCgi"}, action : {"PTZ_VECTOR"}, speed : 0..100,
          vector : Vectors]
    \cup {[fn |-> "stop", action |-> "STOP", speed |-> 50, vector |-> NoVector]}

EncodeInit ==
    /\ cgiCall \in CgiCalls
    /\ cgiParams = {}
    /\ OnvifAtRest
    /\ NdiAtRest
    /\ ViscaAtRest
    /\ devices = {}
    /\ InitRouter
    /\ InitGate
    /\ SanitizerAtRest
    /\ DiscoveryAtRest

\* sendCommand builds the code of its request.
MapCommand ==
    /\ cgiCall.fn = "mapCommandToCgi"
    /\ cgiParams = {}
    /\ cgiParams' = {CgiCode(mapCommandToCgi(cgiCall.action, cgiCall.speed,
                                             cgiCall.vector))}
    /\ UNCHANGED <<cgiCall, onvifVars, ndiVars, viscaVars,
                   routerVars, gateVars, sanitizeVars, discoveryVars>>

\* stop requests a fixed code.
StopRequest ==
    /\ cgiCall.fn = "stop"
    /\ cgiParams = {}
    /\ cgiParams' = {"P50T50Z50"}
    /\ UNCHANGED <<cgiCall, onvifVars, ndiVars, viscaVars,
                   routerVars, gateVars, sanitizeVars, discoveryVars>>

EncodeNext == MapCommand \/ StopRequest

EncodeSpec == EncodeInit /\ [][EncodeNext]_vars

\* ------------------------------------------------- the ONVIF adapter
\* Calls of sendCommand and stop of onvif.js, interleaved at their awaits:
\* the router dispatches a STOP to the adapter while an earlier command to
\* the same device may still be waiting in getDevice.
MaxOnvifCalls == 2

OnvifActions == {"PAN_LEFT", "STOP"}

\* The calls the router makes: handler.sendCommand(device, action, params)
\* and handler.stop(device).
OnvifEntries ==
    [fn : {"sendCommand"}, action : OnvifActions] \cup [fn : {"stop"}, action : {"STOP"}]

OnvifInit ==
    /\ OnvifAtRest
    /\ EncoderAtRest
    /\ NdiAtRest
    /\ ViscaAtRest
    /\ devices = {}
    /\ InitRouter
    /\ InitGate
    /\ SanitizerAtRest
    /\ DiscoveryAtRest

\* getDevice up to its await: a cached handle is returned, otherwise a new
\* OnvifDevice is created and its init started.  The call keeps the handle
\* it was given.
getDevice(entry, deviceInfo) ==
    LET key == CacheKey(deviceInfo)
    IN  IF deviceCache[key] # {}
        THEN /\ connections' = connections
             /\ onvifCalls' = Append(onvifCalls,
                    [fn |-> entry.fn, action |-> entry.action, key |-> key,
                     device |-> CHOOSE i \in deviceCache[key] : TRUE,
                     state |-> "requesting"])
        ELSE /\ connections' = Append(connections,
                    [key |-> key, status |-> "connecting"])
             /\ onvifCalls' = Append(onvifCalls,
                    [fn |-> entry.fn, action |-> entry.action, key |-> key,
                     device |-> Len(connections) + 1,
                     state |-> "connecting"])

\* sendCommand or stop is called and runs up to its first await.
OnvifCall(entry, deviceInfo) ==
    /\ Len(onvifCalls) < MaxOnvifCalls
    /\ getDevice(entry, deviceInfo)
    /\ UNCHANGED deviceCache

\* device.init() resolves: the handle is cached and the call goes on to its
\* PTZ request.
InitResolves(i) ==
    /\ connections[i].status = "connecting"
    /\ connections' = [connections EXCEPT ![i].status = "ready"]
    /\ deviceCache' = [deviceCache EXCEPT ![connections[i].key] = {i}]
    /\ onvifCalls' = [c \in DOMAIN onvifCalls |->
            IF onvifCalls[c].device = i /\ onvifCalls[c].state = "connecting"
            THEN [onvifCalls[c] EXCEPT !.state = "requesting"]
            ELSE onvifCalls[c]]

\* device.init() rejects: getDevice rethrows, the caller returns a failure,
\* deviceCache is not written.
InitRejects(i) ==
    /\ connections[i].status = "connecting"
    /\ connections' = [connections EXCEPT ![i].status = "failed"]
    /\ onvifCalls' = [c \in DOMAIN onvifCalls |->
            IF onvifCalls[c].device = i /\ onvifCalls[c].state = "connecting"
            THEN [onvifCalls[c] EXCEPT !.state = "failure"]
            ELSE onvifCalls[c]]
    /\ UNCHANGED deviceCache

\* The PTZ request of a call settles: { success: true } or the caught error.
RequestSettles(c, ok) ==
    /\ onvifCalls[c].state = "requesting"
    /\ onvifCalls' = [onvifCalls EXCEPT
            ![c].state = IF ok THEN "success" ELSE "failure"]
    /\ UNCHANGED <<deviceCache, connections>>

OnvifNext ==
    \/ \E entry \in OnvifEntries, deviceInfo \in OnvifDevices :
          /\ OnvifCall(entry, deviceInfo)
          /\ UNCHANGED <<encoderVars, ndiVars, viscaVars,
                         routerVars, gateVars, sanitizeVars, discoveryVars>>
    \/ \E i \in DOMAIN connections :
          /\ InitResolves(i)
          /\ UNCHANGED <<encoderVars, ndiVars, viscaVars,
                         routerVars, gateVars, sanitizeVars, discoveryVars>>
    \/ \E i \in DOMAIN connections :
          /\ InitRejects(i)
          /\ UNCHANGED <<encoderVars, ndiVars, viscaVars,
                         routerVars, gateVars, sanitizeVars, discoveryVars>>
    \/ \E c \in DOMAIN onvifCalls, ok \in BOOLEAN :
          /\ RequestSettles(c, ok)
          /\ UNCHANGED <<encoderVars, ndiVars, viscaVars,
                         routerVars, gateVars, sanitizeVars, discoveryVars>>

OnvifSpec == OnvifInit /\ [][OnvifNext]_vars

\* --------------------------------------------------- the NDI adapter
\* One call of sendCommand or stop of the generic-HTTP adapter, stepped at
\* its awaits.  Speeds are in percent; the code divides them by 100.
NdiSwitchActions ==
    {"PAN_LEFT", "PAN_RIGHT", "TILT_UP", "TILT_DOWN", "ZOOM_IN", "ZOOM_OUT",
     "STOP", "PRESET_CALL", "PRESET_SET"}

NdiActions == NdiSwitchActions \cup {"PTZ_VECTOR", "FOCUS_NEAR"}

\* The third argument: a number, or an object with a speed.
NdiParams == [kind : {"number", "object"}, speed : {0, 50, 100}]

NdiCalls ==
    [fn : {"sendCommand"}, action : NdiActions, params : NdiParams]
        \cup {[fn |-> "stop", action |-> "STOP",
               params |-> [kind |-> "number", speed |-> 50]]}

\* typeof params === 'object' ? params.speed || 50 : params
NdiSpeed(params) ==
    IF params.kind = "object" /\ params.speed = 0 THEN 50 ELSE params.speed

endpoint(action, speed) ==
    CASE action = "PRESET_CALL" -> "/ptz/preset/" \o ToString(speed)
      [] action = "PRESET_SET" -> "/ptz/preset/" \o ToString(speed) \o "/store"
      [] OTHER -> "/ptz"

\* In hundredths.
queryParams(action, speed) ==
    CASE action = "PAN_LEFT" -> [pan_speed |-> -speed]
      [] action = "PAN_RIGHT" -> [pan_speed |-> speed]
      [] action = "TILT_UP" -> [tilt_speed |-> speed]
      [] action = "TILT_DOWN" -> [tilt_speed |-> -speed]
      [] action = "ZOOM_IN" -> [zoom_speed |-> speed]
      [] action = "ZOOM_OUT" -> [zoom_speed |-> -speed]
      [] action = "STOP" -> [pan_speed |-> 0, tilt_speed |-> 0, zoom_speed |-> 0]
      [] OTHER -> <<>>

mapToNdiCmd(action, speed) ==
    CASE action = "PAN_LEFT" -> "left"
      [] action = "PAN_RIGHT" -> "right"
      [] action = "TILT_UP" -> "up"
      [] action = "TILT_DOWN" -> "down"
      [] action = "ZOOM_IN" -> "zoomin"
      [] action = "ZOOM_OUT" -> "zoomout"
      [] action = "STOP" -> "ptzstop"
      [] action = "PRESET_CALL" -> "poscall&posnum=" \o ToString(speed)
      [] action = "PRESET_SET" -> "posset&posnum=" \o ToString(speed)
      [] OTHER -> "ptzstop"

\* The three request shapes, in the order of the nested try blocks.
NdiRequest(n, action, speed) ==
    CASE n = 1 -> [shape |-> "rest", method |-> "GET",
                   path |-> endpoint(action, speed),
                   params |-> queryParams(action, speed), status |-> "pending"]
      [] n = 2 -> [shape |-> "cgi", method |-> "GET",
                   path |-> "/cgi-bin/ptzctrl.cgi",
                   params |-> [ptzcmd |-> mapToNdiCmd(action, speed)],
                   status |-> "pending"]
      [] n = 3 -> [shape |-> "post", method |-> "POST", path |-> "/ptz",
                   params |-> queryParams(action, speed), status |-> "pending"]

NdiInit ==
    /\ NdiAtRest
    /\ EncoderAtRest
    /\ OnvifAtRest
    /\ ViscaAtRest
    /\ devices = {}
    /\ InitRouter
    /\ InitGate
    /\ SanitizerAtRest
    /\ DiscoveryAtRest

\* sendCommand up to its first await: an action outside the switch returns
\* at once, any other starts the first request.
NdiSendCommand(call) ==
    /\ ndiCall.action = "none"
    /\ ndiCall' = call
    /\ IF call.action \in NdiSwitchActions
       THEN /\ ndiRequests' = <<NdiRequest(1, call.action, NdiSpeed(call.params))>>
            /\ ndiReturned' = {}
       ELSE /\ ndiRequests' = <<>>
            /\ ndiReturned' = {[success |-> FALSE, error |-> "Unknown action"]}

AttemptFailedGivesUp(n) ==
    IF n < 2
    THEN /\ ndiRequests' = Append([ndiRequests EXCEPT ![n].status = "raised"],
                NdiRequest(n + 1, ndiCall.action, NdiSpeed(ndiCall.params)))
         /\ ndiReturned' = {}
    ELSE /\ ndiRequests' = [ndiRequests EXCEPT ![n].status = "raised"]
         /\ ndiReturned' = {[success |-> FALSE, error |-> "error.message"]}

AttemptFailed(n) ==
    IF n < 3
    THEN /\ ndiRequests' = Append([ndiRequests EXCEPT ![n].status = "raised"],
                NdiRequest(n + 1, ndiCall.action, NdiSpeed(ndiCall.params)))
         /\ ndiReturned' = {}
    ELSE /\ ndiRequests' = [ndiRequests EXCEPT ![n].status = "raised"]
         /\ ndiReturned' = {[success |-> FALSE, error |-> "error.message"]}

\* The request under way settles: a response ends the call with success, an
\* error moves to the next shape, or after the third to the outer catch.
AttemptSettles(raised) ==
    /\ ndiRequests # <<>>
    /\ ndiRequests[Len(ndiRequests)].status = "pending"
    /\ IF raised
       THEN AttemptFailed(Len(ndiRequests))
       ELSE /\ ndiRequests' = [ndiRequests EXCEPT ![Len(ndiRequests)].status = "ok"]
            /\ ndiReturned' = {[success |-> TRUE]}
    /\ UNCHANGED ndiCall

NdiNext ==
    \/ \E call \in NdiCalls :
          /\ NdiSendCommand(call)
          /\ UNCHANGED <<encoderVars, onvifVars, viscaVars,
                         routerVars, gateVars, sanitizeVars, discoveryVars>>
    \/ \E raised \in BOOLEAN :
          /\ AttemptSettles(raised)
          /\ UNCHANGED <<encoderVars, onvifVars, viscaVars,
                         routerVars, gateVars, sanitizeVars, discoveryVars>>

NdiSpec == NdiInit /\ [][NdiNext]_vars

\* ------------------------------------------------- the VISCA adapter
\* Calls of sendCommand and stop of the VISCA adapter, stepped at their
\* awaits, and the sockets of sendViscaUdp with their two callbacks.
MaxViscaCalls == 1

VISCA_COMMANDS ==
    [PAN_TILT |-> <<1, 6, 1>>,
     PAN_TILT_STOP |-> <<1, 6, 1, 3, 3, 3, 3>>,
     ZOOM_IN |-> <<1, 4, 7, 2>>,
     ZOOM_OUT |-> <<1, 4, 7, 3>>,
     ZOOM_STOP |-> <<1, 4, 7, 0>>,
     PRESET_RECALL |-> <<1, 4, 63, 2>>,
     PRESET_SET |-> <<1, 4, 63, 1>>]

ViscaSwitchActions ==
    {"PAN_LEFT", "PAN_RIGHT", "TILT_UP", "TILT_DOWN", "ZOOM_IN", "ZOOM_OUT",
     "STOP", "PRESET_CALL", "PRESET_SET"}

\* The calls the router makes.
ViscaEntries ==
    [fn : {"sendCommand"},
     action : {"PAN_LEFT", "ZOOM_IN", "STOP", "PRESET_CALL", "PTZ_VECTOR"},
     speed : {0, 50, 100}]
        \cup {[fn |-> "stop", action |-> "STOP", speed |-> 50]}

\* Math.max(1, Math.min(24, Math.floor(speed / 4.2)))
viscaSpeed(speed) ==
    LET floor == (speed * 10) \div 42
        min == IF floor < 24 THEN floor ELSE 24
    IN  IF min > 1 THEN min ELSE 1

\* The command sendCommand hands to its last sendViscaUdp.
ViscaCommand(action, speed) ==
    CASE action = "PAN_LEFT" ->
             VISCA_COMMANDS.PAN_TILT \o <<viscaSpeed(speed), viscaSpeed(speed), 1, 3>>
      [] action = "PAN_RIGHT" ->
             VISCA_COMMANDS.PAN_TILT \o <<viscaSpeed(speed), viscaSpeed(speed), 2, 3>>
      [] action = "TILT_UP" ->
             VISCA_COMMANDS.PAN_TILT \o <<viscaSpeed(speed), viscaSpeed(speed), 3, 1>>
      [] action = "TILT_DOWN" ->
             VISCA_COMMANDS.PAN_TILT \o <<viscaSpeed(speed), viscaSpeed(speed), 3, 2>>
      [] action = "ZOOM_IN" -> VISCA_COMMANDS.ZOOM_IN
      [] action = "ZOOM_OUT" -> VISCA_COMMANDS.ZOOM_OUT
      [] action = "STOP" -> VISCA_COMMANDS.ZOOM_STOP
      [] action = "PRESET_CALL" -> VISCA_COMMANDS.PRESET_RECALL \o <<speed>>
      [] action = "PRESET_SET" -> VISCA_COMMANDS.PRESET_SET \o <<speed>>

\* sendViscaUdp up to its return: a socket is created, the buffer handed to
\* socket.send and the 100 ms timer armed; the promise is pending.
sendViscaUdp(call, command) ==
    [call |-> call, buffer |-> <<VISCA_HEADER>> \o command \o <<255>>,
     promise |-> "pending", callback |-> "none", timedOut |-> FALSE,
     closes |-> 0]

ViscaInit ==
    /\ ViscaAtRest
    /\ EncoderAtRest
    /\ OnvifAtRest
    /\ NdiAtRest
    /\ devices = {}
    /\ InitRouter
    /\ InitGate
    /\ SanitizerAtRest
    /\ DiscoveryAtRest

\* sendCommand up to its first await.
ViscaSendCommand(action, speed) ==
    LET c == Len(viscaCalls) + 1
    IN  /\ c <= MaxViscaCalls
        /\ IF action \notin ViscaSwitchActions
           THEN /\ viscaCalls' = Append(viscaCalls,
                       [fn |-> "sendCommand", action |-> action, speed |-> speed,
                        step |-> "returned"])
                /\ viscaReturned' = Append(viscaReturned,
                       [call |-> c, success |-> FALSE, error |-> "Unknown action"])
                /\ UNCHANGED datagrams
           ELSE /\ viscaCalls' = Append(viscaCalls,
                       [fn |-> "sendCommand", action |-> action, speed |-> speed,
                        step |-> IF action = "STOP" THEN "panTiltStop" ELSE "command"])
                /\ datagrams' = Append(datagrams,
                       sendViscaUdp(c, IF action = "STOP"
                                       THEN VISCA_COMMANDS.PAN_TILT_STOP
                                       ELSE ViscaCommand(action, speed)))
                /\ UNCHANGED viscaReturned

\* stop up to its first await.
ViscaStop ==
    LET c == Len(viscaCalls) + 1
    IN  /\ c <= MaxViscaCalls
        /\ viscaCalls' = Append(viscaCalls,
               [fn |-> "stop", action |-> "STOP", step |-> "panTiltStop"])
        /\ datagrams' = Append(datagrams,
               sendViscaUdp(c, VISCA_COMMANDS.PAN_TILT_STOP))
        /\ UNCHANGED viscaReturned

\* The promise of datagram d settles and the call awaiting it goes on: after
\* the pan/tilt stop it sends the zoom stop, after its last datagram it
\* returns, and on a rejection its catch returns a failure.  dgs is the
\* datagram list with the socket's new state.
ViscaResume(d, dgs, resolved) ==
    LET c == datagrams[d].call
    IN  IF resolved /\ viscaCalls[c].step = "panTiltStop"
        THEN /\ viscaCalls' = [viscaCalls EXCEPT ![c].step = "command"]
             /\ datagrams' = Append(dgs, sendViscaUdp(c, VISCA_COMMANDS.ZOOM_STOP))
             /\ UNCHANGED viscaReturned
        ELSE /\ viscaCalls' = [viscaCalls EXCEPT ![c].step = "returned"]
             /\ datagrams' = dgs
             /\ viscaReturned' = Append(viscaReturned,
                    IF resolved
                    THEN [call |-> c, success |-> TRUE]
                    ELSE [call |-> c, success |-> FALSE, error |-> "error.message"])

\* The callback of socket.send runs: the socket is closed and the promise
\* rejected or resolved; a settled promise stays as it is.
SendCallback(d, err) ==
    /\ datagrams[d].callback = "none"
    /\ LET dgs == [datagrams EXCEPT
                      ![d].callback = IF err THEN "err" ELSE "ok",
                      ![d].closes = @ + 1,
                      ![d].promise = IF @ # "pending" THEN @
                                     ELSE IF err THEN "rejected" ELSE "resolved"]
       IN  IF datagrams[d].promise = "pending"
           THEN ViscaResume(d, dgs, ~err)
           ELSE /\ datagrams' = dgs
                /\ UNCHANGED <<viscaCalls, viscaReturned>>

\* The 100 ms timer runs: the socket is closed and the promise resolved; a
\* settled promise stays as it is.
SendTimeout(d) ==
    /\ ~datagrams[d].timedOut
    /\ LET dgs == [datagrams EXCEPT
                      ![d].timedOut = TRUE,
                      ![d].closes = @ + 1,
                      ![d].promise = IF @ # "pending" THEN @ ELSE "resolved"]
       IN  IF datagrams[d].promise = "pending"
           THEN ViscaResume(d, dgs, TRUE)
           ELSE /\ datagrams' = dgs
                /\ UNCHANGED <<viscaCalls, viscaReturned>>

ViscaNext ==
    \/ \E entry \in ViscaEntries :
          /\ entry.fn = "sendCommand"
          /\ ViscaSendCommand(entry.action, entry.speed)
          /\ UNCHANGED <<encoderVars, onvifVars, ndiVars,
                         routerVars, gateVars, sanitizeVars, discoveryVars>>
    \/ /\ ViscaStop
       /\ UNCHANGED <<encoderVars, onvifVars, ndiVars,
                      routerVars, gateVars, sanitizeVars, discoveryVars>>
    \/ \E d \in DOMAIN datagrams, err \in BOOLEAN :
          /\ SendCallback(d, err)
          /\ UNCHANGED <<encoderVars, onvifVars, ndiVars,
                         routerVars, gateVars, sanitizeVars, discoveryVars>>
    \/ \E d \in DOMAIN datagrams :
          /\ SendTimeout(d)
          /\ UNCHANGED <<encoderVars, onvifVars, ndiVars,
                         routerVars, gateVars, sanitizeVars, discoveryVars>>

ViscaSpec == ViscaInit /\ [][ViscaNext]_vars

\* ------------------------------------- what the router hands over
\* Commands with every speed and preset number, with and without a speed,
\* and vector commands, routed to a single camera.
MaxRouted == 1

RoutedCommands ==
    [action : {"PRESET_CALL"}, speed : (0..100) \cup {NoSpeed},
     target : {"ALL"}, vector : {NoVector}]
    \cup [action : {"PAN_LEFT", "STOP"}, speed : {NoSpeed, 0, 50, 100},
          target : {"ALL"}, vector : {NoVector}]
    \cup [action : {"PTZ_VECTOR"}, speed : {NoSpeed, 0, 50, 100},
          target : {"ALL"}, vector : {[x |-> 60, y |-> -60], [x |-> 0, y |-> 0],
                                    [x |-> -100, y |-> 50]}]

RouteInit ==
    /\ devices \in SingleRegistries
    /\ InitRouter
    /\ InitGate
    /\ AdaptersAtRest
    /\ SanitizerAtRest
    /\ DiscoveryAtRest

RouteNext ==
    \/ \E cmd \in RoutedCommands :
          /\ seq < MaxRouted
          /\ SendPtzCommand(cmd)
          /\ UNCHANGED <<gateVars, sanitizeVars, discoveryVars, adapterVars>>
    \/ \E t \in timers :
          WatchdogFire(t) /\ UNCHANGED <<gateVars, sanitizeVars, discoveryVars, adapterVars>>
    \/ \E f \in inflight :
          SendComplete(f) /\ UNCHANGED <<gateVars, sanitizeVars, discoveryVars, adapterVars>>

RouteSpec == RouteInit /\ [][RouteNext]_vars

\* ------------------------------------------------- vocabulary of claims
Last(q) == q[Len(q)]

TimersOf(ip) == {t \in timers : t.ip = ip}

InFlightOf(ip) == {f \in inflight : f.ip = ip}

\* This step hands a command to the dispatch of ip.
Arrives(ip) == Len(arrived'[ip]) = Len(arrived[ip]) + 1

StopArrives(ip) == Arrives(ip) /\ Last(arrived'[ip]).action = "STOP"

\* This step is the watchdog callback of ip.
ForcedStop(ip) == forcedSince'[ip] = forcedSince[ip] + 1

\* This step starts exactly one adapter send for ip.
Starts(ip) == Len(log'[ip]) = Len(log[ip]) + 1 /\ SubSeq(log'[ip], 1, Len(log[ip])) = log[ip]

\* Continuous motion in the sense of the command enumeration.
ContinuousMotion(action) == IsMove(action) \/ action = "PTZ_VECTOR"

\* Positions of log[ip] holding the send of the command with this stamp.
SendsOf(ip, n, forced) ==
    {i \in 1..Len(log[ip]) : log[ip][i].seq = n /\ log[ip][i].forced = forced}

\* ------------------------------------------------------------------- C1
\* C1: a STOP reaching queueCommand for a busy device starts its send in
\* the same step as a bypass, leaves the in-flight sends running and empties
\* the pending slot; and after a bypass STOP no command received before it
\* starts a send.
C1_StopBypass ==
    /\ [][\A ip \in Ips :
            (deviceBusy[ip] /\ (StopArrives(ip) \/ ForcedStop(ip))) =>
                /\ Starts(ip)
                /\ Last(log'[ip]).action = "STOP"
                /\ Last(log'[ip]).kind = "bypass"
                /\ InFlightOf(ip) \subseteq inflight'
                /\ devicePending'[ip] = {}]_vars
    /\ [](\A ip \in Ips : \A i, j \in 1..Len(log[ip]) :
            (i < j /\ log[ip][i].action = "STOP" /\ log[ip][i].kind = "bypass"
                   /\ log[ip][j].action # "STOP")
                => log[ip][j].seq > log[ip][i].seq)

\* A STOP bypassed a send that is still in flight and removed a pending
\* command.
C1_Witness ==
    \E ip \in Ips : \E i \in 1..Len(log[ip]) :
        /\ log[ip][i].action = "STOP" /\ log[ip][i].kind = "bypass"
        /\ ~log[ip][i].forced
        /\ \E c \in displaced[ip] : c.seq < log[ip][i].seq
        /\ \E f \in InFlightOf(ip) : f.kind = "exec" /\ f.seq < log[ip][i].seq

\* ------------------------------------------------------------------- C2
\* The last two commands dispatched to ip are continuous motions A and B,
\* A found the device idle and B arrived while A's send was in flight.
ABScenario(ip) ==
    LET n == Len(arrived[ip]) IN
    /\ n >= 2
    /\ ContinuousMotion(arrived[ip][n - 1].action)
    /\ ContinuousMotion(arrived[ip][n].action)
    /\ arrived[ip][n - 1].behind = {}
    /\ arrived[ip][n].behind = {[seq |-> arrived[ip][n - 1].seq, forced |-> FALSE]}

\* A is sent once, B is never dropped, and once A's send has settled B has
\* been sent once, after A and after A's send had completed.
ABOutcome(ip) ==
    LET n == Len(arrived[ip])
        a == arrived[ip][n - 1].seq
        b == arrived[ip][n].seq
    IN  /\ Cardinality(SendsOf(ip, a, FALSE)) = 1
        /\ \A c \in displaced[ip] : c.seq # b
        /\ \A i \in SendsOf(ip, b, FALSE) :
              /\ log[ip][i].behind = {}
              /\ \A j \in SendsOf(ip, a, FALSE) : j < i
        /\ ([seq |-> a, forced |-> FALSE] \notin ExecInFlight(State, ip)
              => Cardinality(SendsOf(ip, b, FALSE)) = 1)

\* C2 as stated: motion A to an idle device, then motion B before A's send
\* completes, gives exactly A followed by B, B never dropped.
C2_AThenB_Original ==
    \A ip \in Ips : ABScenario(ip) => ABOutcome(ip)

\* The watchdog armed by B elapsed while A's send was still in flight.
WatchdogElapsedBehindA(ip) ==
    LET n == Len(arrived[ip]) IN
    \E i \in SendsOf(ip, arrived[ip][n].seq, TRUE) :
        [seq |-> arrived[ip][n - 1].seq, forced |-> FALSE] \in log[ip][i].behind

\* C2 (amended): the same outcome, provided the watchdog armed by B does not
\* elapse while A's send is still in flight.
C2_AThenB ==
    \A ip \in Ips :
        (ABScenario(ip) /\ ~WatchdogElapsedBehindA(ip)) => ABOutcome(ip)

\* A and B arrived as in the scenario and both have been sent.
C2_Witness ==
    \E ip \in Ips :
        /\ ABScenario(ip) /\ ~WatchdogElapsedBehindA(ip)
        /\ Cardinality(SendsOf(ip, Last(arrived[ip]).seq, FALSE)) = 1
        /\ InFlightOf(ip) = {}

\* ------------------------------------------------------------------- C3
\* This step settles a serialized-path send of ip.
ExecSettles(ip) ==
    \E f \in InFlightOf(ip) : f.kind = "exec" /\ f \notin inflight'

\* C3: a command displaced from the pending slot is never sent, the pending
\* slot always holds the latest command dispatched to the device, and when
\* the in-flight send settles the pending command is the one that starts.
C3_LatestWins ==
    /\ [](\A ip \in Ips :
            /\ \A c \in displaced[ip] : SendsOf(ip, c.seq, FALSE) = {}
            /\ \A c \in devicePending[ip] :
                  c.seq = Last(arrived[ip]).seq /\ c.action # "STOP")
    /\ [][\A ip \in Ips :
            (ExecSettles(ip) /\ devicePending[ip] # {}) =>
                /\ Starts(ip)
                /\ \A c \in devicePending[ip] :
                      /\ Last(log'[ip]).seq = c.seq
                      /\ Last(log'[ip]).action = c.action
                /\ Last(log'[ip]).kind = "exec"
                /\ devicePending'[ip] = {}]_vars

\* Two non-stop commands arrived behind the same in-flight send; the
\* earlier one was displaced and the later one has been sent.
C3_Witness ==
    \E ip \in Ips : \E i, j \in 1..Len(arrived[ip]) :
        /\ i < j
        /\ arrived[ip][i].behind # {}
        /\ arrived[ip][i].behind = arrived[ip][j].behind
        /\ arrived[ip][i].action # "STOP" /\ arrived[ip][j].action # "STOP"
        /\ \E c \in displaced[ip] : c.seq = arrived[ip][i].seq
        /\ SendsOf(ip, arrived[ip][j].seq, FALSE) # {}

\* ------------------------------------------------------------------- C4
\* C4: once no adapter send is outstanding, every sendPtzCommand call has
\* completed (none of its per-target promises is left unsettled).
C4_NoCallBlocked ==
    inflight = {} => unresolved = {}

\* ------------------------------------------------------------------- C5
\* C5: no second forced stop follows a command; while a timer is armed no
\* forced stop has been issued; and once the timer armed by the latest
\* motion command is gone, exactly one forced STOP has been issued for it,
\* nothing was started after it, nothing is pending, no watchdog handle is
\* left, and the device is idle as soon as its sends have settled.
C5_ForcedStopOnce ==
    \A ip \in Ips :
        /\ forcedSince[ip] <= 1
        /\ (TimersOf(ip) # {} => forcedSince[ip] = 0)
        /\ (Len(arrived[ip]) > 0 /\ IsMove(Last(arrived[ip]).action)
              /\ TimersOf(ip) = {})
            => /\ forcedSince[ip] = 1
               /\ Cardinality(SendsOf(ip, Last(arrived[ip]).seq, TRUE)) = 1
               /\ Last(log[ip]).forced /\ Last(log[ip]).action = "STOP"
               /\ Last(log[ip]).seq = Last(arrived[ip]).seq
               /\ devicePending[ip] = {}
               /\ deviceWatchdogs[ip] = {}
               /\ (InFlightOf(ip) = {} => ~deviceBusy[ip])

\* The watchdog of the latest motion command has fired and the device has
\* come to rest.
C5_Witness ==
    \E ip \in Ips :
        /\ Len(arrived[ip]) > 0 /\ IsMove(Last(arrived[ip]).action)
        /\ TimersOf(ip) = {} /\ InFlightOf(ip) = {}
        /\ forcedSince[ip] = 1 /\ ~deviceBusy[ip]

\* ------------------------------------------------------------------- C6
\* C6: a device never has two scheduled timers and deviceWatchdogs holds
\* exactly the scheduled one; a motion command leaves exactly its own timer
\* scheduled; and a timer that fires is the one armed by the latest command.
C6_OneTimer ==
    /\ [](\A ip \in Ips :
            /\ Cardinality(TimersOf(ip)) <= 1
            /\ deviceWatchdogs[ip] = {t.id : t \in TimersOf(ip)})
    /\ [][\A ip \in Ips :
            /\ (Arrives(ip) /\ IsMove(Last(arrived'[ip]).action))
                 => {t \in timers' : t.ip = ip}
                      = {[ip |-> ip, id |-> Last(arrived'[ip]).seq]}
            /\ ForcedStop(ip)
                 => Last(log'[ip]).seq = Last(arrived[ip]).seq]_vars

\* A motion command renewed the watchdog of an earlier motion command
\* before it elapsed.
C6_Witness ==
    \E ip \in Ips :
        LET n == Len(arrived[ip]) IN
        /\ n >= 2
        /\ IsMove(arrived[ip][n - 1].action) /\ IsMove(arrived[ip][n].action)
        /\ SendsOf(ip, arrived[ip][n - 1].seq, TRUE) = {}
        /\ TimersOf(ip) = {[ip |-> ip, id |-> arrived[ip][n].seq]}

\* ------------------------------------------------------------------- C7
WireEntries(ip) == SelectSeq(log[ip], LAMBDA e : e.wire)

\* The most recent wire transmission to ip commands continuous motion.
LastWireMoves(ip) ==
    WireEntries(ip) # <<>> /\ Last(WireEntries(ip)).moves

\* C7: once no timer is scheduled and no send is in flight for a device
\* (nothing further is transmitted to it unless a new command arrives), the
\* most recent wire transmission to it is not a continuous motion.
C7_StopFollows ==
    \A ip \in Ips :
        (TimersOf(ip) = {} /\ InFlightOf(ip) = {}) => ~LastWireMoves(ip)

\* ------------------------------------------------------------------- C8
\* C8: every continuous-motion command (directional or PTZ_VECTOR)
\* dispatched to a device leaves a watchdog armed for it.
C8_MotionArmsWatchdog ==
    [][\A ip \in Ips :
        (Arrives(ip) /\ ContinuousMotion(Last(arrived'[ip]).action))
            => deviceWatchdogs'[ip] # {}]_vars

\* ------------------------------------------------------------------- C9
\* C9: while the latest command dispatched to a device is a STOP, the
\* device has no watchdog handle and no scheduled timer.
C9_StopDisarms ==
    \A ip \in Ips :
        (Len(arrived[ip]) > 0 /\ Last(arrived[ip]).action = "STOP")
            => deviceWatchdogs[ip] = {} /\ TimersOf(ip) = {}

\* A STOP arrived while the timer of the preceding motion command was
\* still armed.
C9_Witness ==
    \E ip \in Ips :
        LET n == Len(arrived[ip]) IN
        /\ n >= 2
        /\ IsMove(arrived[ip][n - 1].action)
        /\ arrived[ip][n].action = "STOP"
        /\ SendsOf(ip, arrived[ip][n - 1].seq, TRUE) = {}

\* ------------------------------------------------------------------ C10
\* C10: every STOP dispatched to a device starts, in the same step, a send
\* that is transmitted on the wire.
C10_StopAlwaysTransmitted ==
    [][\A ip \in Ips :
        StopArrives(ip) =>
            /\ Starts(ip)
            /\ Last(log'[ip]).action = "STOP"
            /\ Last(log'[ip]).wire]_vars

\* ------------------------------------------------------------------ C11
\* C11: a relayed command whose password differs from the locally held
\* room password, or that carries no password, changes nothing in the
\* router or the adapters (no call, no send), whatever the state of the
\* room session, a stopped room with cleared credentials included.
C11_MismatchHasNoEffect ==
    [][\A room \in Rooms, cmdData \in RelayPayloads :
          (RelayCommand(room, cmdData) /\ cmdData.password # roomPassword)
              => UNCHANGED routerVars]_vars

\* A command without a password was delivered while the room was stopped
\* and its credentials cleared, and the router has never been called.
C11_Witness ==
    /\ lastRelayed # {}
    /\ \A d \in lastRelayed : d.password = "undefined" /\ d.held = "null"
    /\ roomPassword = "null"
    /\ attached # {}
    /\ seq = 0
    /\ relayed = MaxRelayed

\* ------------------------------------------------------------------ C12
\* C12: every command the relay listener hands to the router carries an
\* action of the allow-list.
C12_OnlyAllowedActionsRouted ==
    \A ip \in Ips : \A i \in 1..Len(arrived[ip]) :
        arrived[ip][i].action \in ALLOWED_ACTIONS

\* ------------------------------------------------------------------ C13
\* The action of a command object, when it is a non-empty string.
ActionString(cmd) ==
    /\ cmd.type = "object"
    /\ cmd.action.type = "string"
    /\ cmd.action.str # ""

\* C13: sanitizeCommand returns null for a non-object input, for a
\* missing, empty or non-string action and for an action whose upper-cased
\* form is outside the allow-list; otherwise it returns exactly the
\* upper-cased action, the numeric speed clamped into [0,100] (50 when
\* the speed is not a number) and the string target ('ALL' when the target
\* is absent or not a string).  REBOOT is rejected, pan_left becomes
\* PAN_LEFT, speed 150 becomes 100.
C13_Sanitize ==
    \A r \in sanitized :
        /\ IF ~ActionString(payload)
           THEN r = JsNull
           ELSE IF toUpperCase(payload.action.str) \notin ALLOWED_ACTIONS
           THEN r = JsNull
           ELSE /\ DOMAIN r = {"action", "speed", "target"}
                /\ r.action = toUpperCase(payload.action.str)
                /\ r.speed = (IF payload.speed.type # "number" THEN 50
                              ELSE IF payload.speed.num < 0 THEN 0
                              ELSE IF payload.speed.num > 100 THEN 100
                              ELSE payload.speed.num)
                /\ r.target = (IF payload.target.type = "string"
                               THEN payload.target.str ELSE "ALL")
        /\ (payload.type = "object" /\ payload.action = JsString("REBOOT")) => r = JsNull
        /\ (payload.type = "object" /\ payload.action = JsString("pan_left"))
               => r # JsNull /\ r.action = "PAN_LEFT"
        /\ (payload.type = "object" /\ payload.action = JsString("PAN_LEFT")
               /\ payload.speed = JsNumber(150)) => r.speed = 100

\* pan_left at speed 150 without a target has been normalised.
C13_Witness ==
    /\ payload.type = "object"
    /\ payload.action = JsString("pan_left")
    /\ payload.speed = JsNumber(150)
    /\ payload.target = JsUndefined
    /\ sanitized = {[action |-> "PAN_LEFT", speed |-> 100, target |-> "ALL"]}

\* ------------------------------------------------------------------ C14
\* This step is one pass of the targets.map callback for the registry
\* entry at ip: one command handed to the device's queue, or, for an entry
\* without adapter, one promise fulfilled with undefined.
DispatchedOnce(ip) ==
    IF ProtocolOf(ip) \in protocols
    THEN /\ arrived'[ip] = Append(arrived[ip], Last(arrived'[ip]))
         /\ Last(arrived'[ip]).seq = seq'
         /\ \/ /\ Len(log'[ip]) = Len(log[ip]) + 1
               /\ Last(log'[ip]).seq = seq'
               /\ \A c \in devicePending'[ip] : c.seq # seq'
            \/ /\ log'[ip] = log[ip]
               /\ Cardinality(devicePending'[ip]) = 1
               /\ \A c \in devicePending'[ip] : c.seq = seq'
    ELSE /\ arrived'[ip] = arrived[ip]
         /\ {o \in outcomes' : o.ip = ip}
               = {[ip |-> ip, seq |-> seq', forced |-> FALSE, kind |-> "none",
                   result |-> "undefined"]}

\* This step leaves the dispatch state of ip alone.
Untouched(ip) ==
    /\ deviceBusy'[ip] = deviceBusy[ip]
    /\ devicePending'[ip] = devicePending[ip]
    /\ deviceWatchdogs'[ip] = deviceWatchdogs[ip]
    /\ TimersOf(ip)' = TimersOf(ip)
    /\ InFlightOf(ip)' = InFlightOf(ip)
    /\ log'[ip] = log[ip]
    /\ arrived'[ip] = arrived[ip]
    /\ {o \in outcomes' : o.ip = ip} = {o \in outcomes : o.ip = ip}

\* C14: sendPtzCommand with target ALL or without target dispatches to
\* every registry entry exactly once; with an identifier of the registry
\* it dispatches to that entry only; with an identifier that is not in
\* the registry it sends nothing, leaves no promise to wait for and leaves
\* busy flag, pending command and watchdog of every device unchanged.
C14_TargetResolution ==
    [][\A cmd \in FleetCommands :
          SendPtzCommand(cmd) =>
              IF cmd.target \in {"ALL", ""}
              THEN \A id \in DOMAIN Descriptors :
                       IF id \in devices THEN DispatchedOnce(Descriptors[id].ip)
                       ELSE Untouched(Descriptors[id].ip)
              ELSE IF cmd.target \in devices
              THEN \A id \in DOMAIN Descriptors :
                       IF id = cmd.target THEN DispatchedOnce(Descriptors[id].ip)
                       ELSE Untouched(Descriptors[id].ip)
              ELSE /\ \A ip \in Ips : Untouched(ip)
                   /\ unresolved' = unresolved]_vars

\* A command to all reached both cameras and the entry without adapter,
\* and a second command, for an identifier that is not in the registry,
\* reached nothing.
C14_Witness ==
    /\ seq = 2
    /\ \A id \in {"cam1", "cam2"} :
           /\ Len(arrived[Descriptors[id].ip]) = 1
           /\ arrived[Descriptors[id].ip][1].seq = 1
    /\ {o.seq : o \in {x \in outcomes : x.kind = "none"}} = {1}
    /\ Len(arrived[Descriptors["cam3"].ip]) = 0

\* ------------------------------------------------------------------ C15
\* C15: when the adapter send for one target fails, the failure is
\* captured as the outcome of that target's promise, which is resolved and
\* never rejected; the other devices and their sends are left alone; and
\* the failing device goes on as after a successful send: its pending
\* command is executed, or its busy flag is released.
C15_FailureIsCaptured ==
    [][\A f \in inflight :
          SendSettles(f, "failed") =>
              /\ [ip |-> f.ip, seq |-> f.seq, forced |-> f.forced, kind |-> f.kind,
                  result |-> "failed"] \in outcomes'
              /\ [seq |-> f.seq, ip |-> f.ip] \in unresolved' => f.forced
              /\ \A ip \in Ips \ {f.ip} : Untouched(ip)
              /\ f.kind = "exec" =>
                    IF devicePending[f.ip] # {}
                    THEN /\ devicePending'[f.ip] = {}
                         /\ deviceBusy'[f.ip]
                         /\ Starts(f.ip)
                         /\ \A c \in devicePending[f.ip] :
                                /\ Last(log'[f.ip]).seq = c.seq
                                /\ Last(log'[f.ip]).action = c.action
                                /\ Last(log'[f.ip]).kind = "exec"
                    ELSE /\ ~deviceBusy'[f.ip]
                         /\ log'[f.ip] = log[f.ip]]_vars

\* The send of a command to all devices failed on one camera while a
\* second command was pending there: the pending command was sent next,
\* and the other camera got its send of the first command.
C15_Witness ==
    \E ip \in Ips : \E other \in Ips \ {ip} :
        /\ [ip |-> ip, seq |-> 1, forced |-> FALSE, kind |-> "exec", result |-> "failed"]
              \in outcomes
        /\ Len(log[ip]) = 2
        /\ log[ip][2].seq = 2
        /\ log[ip][2].kind = "exec"
        /\ log[ip][2].behind = {}
        /\ Len(log[other]) >= 1
        /\ log[other][1].seq = 1

\* ------------------------------------------------------------------ C17
\* C17: a targeted device whose protocol tag has no adapter gets a
\* failure ('no handler') outcome.
C17_NoHandlerReported ==
    \A o \in outcomes : o.kind = "none" => o.result = "no handler"

\* The rest of C17: such a device gets no send and no watchdog, and does
\* not keep the command from the other targets.
C17_NoHandlerSkipped ==
    \A ip \in Ips :
        ProtocolOf(ip) \notin protocols =>
            /\ log[ip] = <<>>
            /\ deviceWatchdogs[ip] = {}
            /\ TimersOf(ip) = {}
            /\ InFlightOf(ip) = {}

\* ------------------------------------------------------------------ C16
\* The latest outcome observed for ip is the failure of the send stamped n.
FailedSend(ip, n) ==
    \E o \in outcomes : o.ip = ip /\ o.seq = n /\ o.kind = "direct" /\ o.result = "failed"

\* C16: after a Panasonic send whose request failed, the same command
\* sent again to that device is transmitted again, not skipped.
C16_RetryAfterFailure ==
    [][\A ip \in PanasonicIps, action \in AdapterActions, speed \in AdapterSpeeds :
          (/\ AdapterSend(ip, action, speed)
           /\ log[ip] # <<>>
           /\ Last(log[ip]).kind = "direct"
           /\ Last(log[ip]).action = action
           /\ Last(log[ip]).speed = speed
           /\ FailedSend(ip, Last(log[ip]).seq))
              => Last(log'[ip]).wire]_vars

\* ------------------------------------------------------------------ C18
\* The encoded command of a recorded sendCommand call.
Encoded(e) == mapCommandToCgi(e.action, e.speed, NoVector)

\* C18: a sendCommand to a Panasonic device is skipped exactly when its
\* encoded command equals that of the immediately preceding sendCommand
\* to the same device with no stop in between; a skipped call fulfils with
\* the skipped outcome.  What other devices were sent plays no part.
C18_SkipIffRepeat ==
    /\ \A ip \in PanasonicIps : \A i \in 1..Len(log[ip]) :
           log[ip][i].kind = "direct" =>
               (~log[ip][i].wire <=>
                    (/\ i > 1
                     /\ log[ip][i - 1].kind = "direct"
                     /\ Encoded(log[ip][i - 1]) = Encoded(log[ip][i])))
    /\ \A o \in outcomes : \A i \in 1..Len(log[o.ip]) :
           log[o.ip][i].seq = o.seq => (o.result = "skipped" <=> ~log[o.ip][i].wire)

\* STOP and then a PAN_LEFT that encodes like it were sent to one
\* device: the second was skipped; the same PAN_LEFT, sent to the other
\* device afterwards, was transmitted.
C18_Witness ==
    \E ip \in PanasonicIps : \E other \in PanasonicIps \ {ip} :
        /\ Len(log[ip]) = 2
        /\ log[ip][1].action = "STOP" /\ log[ip][1].kind = "direct" /\ log[ip][1].wire
        /\ log[ip][2].action = "PAN_LEFT" /\ log[ip][2].kind = "direct" /\ ~log[ip][2].wire
        /\ Len(log[other]) = 1
        /\ log[other][1].action = "PAN_LEFT" /\ log[other][1].seq = 3 /\ log[other][1].wire
        /\ \E o \in outcomes : o.ip = ip /\ o.seq = 2 /\ o.result = "skipped"

\* ------------------------------------------------------------------ C19
\* The device list of an adapter whose discover() fulfilled, else none.
ListOf(result) ==
    IF result.status = "fulfilled" THEN result.value ELSE <<>>

\* C19: discoverAll fulfils, whatever the four discover() calls do, with
\* the lists of exactly those that fulfilled, concatenated in the order
\* panasonic, onvif, visca, ndi.
C19_DiscoverAll ==
    \A out \in allDevices :
        /\ out.status = "fulfilled"
        /\ out.value = ListOf(results[1]) \o ListOf(results[2])
                          \o ListOf(results[3]) \o ListOf(results[4])

\* The VISCA discovery rejected and the Panasonic and ONVIF lists were
\* returned.
C19_Witness ==
    /\ results[3].status = "rejected"
    /\ results[4].status = "fulfilled"
    /\ allDevices = {Fulfilled(<<PanasonicReport("10.0.0.1"),
                                  OnvifReport("10.0.0.2", "urn-2")>>)}

\* ------------------------------------------------------------------ C20
\* C20: the registry holds at most one entry per network address.
C20_OneEntryPerAddress ==
    \A k1 \in RegistryKeys, k2 \in RegistryKeys :
        \A e1 \in discoveredDevices[k1], e2 \in discoveredDevices[k2] :
            e1.ip = e2.ip => k1 = k2

\* ------------------------------------------------------------------ C21
\* This step leaves busy flag, pending command, watchdog handle and
\* scheduled timeout of ip as they were.
DispatchStateKept(ip) ==
    /\ deviceBusy'[ip] = deviceBusy[ip]
    /\ devicePending'[ip] = devicePending[ip]
    /\ deviceWatchdogs'[ip] = deviceWatchdogs[ip]
    /\ TimersOf(ip)' = TimersOf(ip)

\* C21: a command targeted at one registry device changes neither the busy
\* flag, the pending command nor the watchdog of any other device, and
\* leaves every other device's scheduled forced stop scheduled.
C21_PerDeviceState ==
    [][\A cmd \in FleetCommands :
          (SendPtzCommand(cmd) /\ cmd.target \in devices) =>
              \A ip \in Ips \ {Descriptors[cmd.target].ip} :
                  /\ DispatchStateKept(ip)
                  /\ InFlightOf(ip)' = InFlightOf(ip)]_vars

\* While the watchdog of the first camera was armed and its send in
\* flight, a command went to the second camera.
C21_Witness ==
    LET one == Descriptors["cam1"].ip
        two == Descriptors["cam2"].ip
    IN  /\ TimersOf(one) = {[ip |-> one, id |-> 1]}
        /\ deviceBusy[one]
        /\ Len(arrived[two]) = 1
        /\ arrived[two][1].seq = 2

\* ------------------------------------------------------------------ C22
\* The sends of ip that were started by executeCommand and are in flight.
SerializedInFlight(ip) == {f \in InFlightOf(ip) : f.kind = "exec"}

\* C22: a device has at most one send in flight that executeCommand
\* started, executeCommand never starts a send while another one of its
\* sends is in flight, and every other send in flight is a STOP issued by
\* the priority bypass.
C22_OneSerializedSend ==
    \A ip \in Ips :
        /\ Cardinality(SerializedInFlight(ip)) <= 1
        /\ \A i \in 1..Len(log[ip]) :
               log[ip][i].kind = "exec" => log[ip][i].behind = {}
        /\ \A f \in InFlightOf(ip) \ SerializedInFlight(ip) :
               f.kind = "bypass" /\ SendOf(f).action = "STOP"

\* One serialized send and two bypass STOPs are in flight for one device.
C22_Witness ==
    \E ip \in Ips :
        /\ Cardinality(SerializedInFlight(ip)) = 1
        /\ Cardinality(InFlightOf(ip) \ SerializedInFlight(ip)) = 2

\* ------------------------------------------------------------------ C28
\* C28: a device holds at most one pending command, and a device with a
\* pending command is busy.
C28_PendingOnlyWhileBusy ==
    \A ip \in Ips :
        /\ Cardinality(devicePending[ip]) <= 1
        /\ devicePending[ip] # {} => deviceBusy[ip]

\* A command is pending behind a send in flight, after an earlier pending
\* command of the same device was replaced.
C28_Witness ==
    \E ip \in Ips :
        /\ devicePending[ip] # {}
        /\ deviceBusy[ip]
        /\ displaced[ip] # {}
        /\ SerializedInFlight(ip) # {}

\* ------------------------------------------------------------------ C29
\* What is still to happen without a new command: every scheduled timeout
\* fires and starts a send, every send in flight settles, every pending
\* command is started and settles.
WorkLeft ==
    2 * Cardinality(timers) + Cardinality(inflight)
        + Cardinality({ip \in Ips : devicePending[ip] # {}})

\* C29: a device without a send in flight is idle and has no pending
\* command, whatever its sends resulted in; and every step that is not the
\* arrival of a command leaves less to happen, so that once commands stop
\* arriving and sends complete, every device comes to rest after finitely
\* many steps.
C29_ComesToRest ==
    /\ [](\A ip \in Ips :
            InFlightOf(ip) = {} => ~deviceBusy[ip] /\ devicePending[ip] = {})
    /\ [][seq' = seq => WorkLeft' < WorkLeft]_vars

\* A device is idle after a failed send, a bypass STOP and the send of a
\* command that had been pending.
C29_Witness ==
    \E ip \in Ips :
        /\ ~deviceBusy[ip]
        /\ InFlightOf(ip) = {}
        /\ Len(log[ip]) = 2
        /\ log[ip][2].kind = "bypass"
        /\ \E o \in outcomes : o.ip = ip /\ o.result = "failed"
        /\ \E other \in Ips \ {ip} :
               /\ ~deviceBusy[other]
               /\ Len(log[other]) = 2
               /\ log[other][2].behind = {}
               /\ log[other][2].kind = "exec"
               /\ log[other][1].seq = 1 /\ log[other][2].seq = 2
               /\ InFlightOf(other) = {}

\* ------------------------------------------------------------------ C30
\* The sends of ip the router started for received commands (the forced
\* STOPs of the watchdog are not received commands), in starting order.
CommandSends(ip) == SelectSeq(log[ip], LAMBDA e : ~e.forced)

\* C30: for one device the sends of received commands start in the order
\* in which the router received the commands, each command at most once.
C30_OrderPreserved ==
    \A ip \in Ips :
        \A i, j \in 1..Len(CommandSends(ip)) :
            i < j => CommandSends(ip)[i].seq < CommandSends(ip)[j].seq

\* Of three commands received for one device, the second was dropped by
\* conflation and the third was sent after the first had completed.
C30_Witness ==
    \E ip \in Ips :
        /\ Len(CommandSends(ip)) = 2
        /\ CommandSends(ip)[1].seq = 1
        /\ CommandSends(ip)[2].seq = 3
        /\ CommandSends(ip)[2].kind = "exec"
        /\ \E c \in displaced[ip] : c.seq = 2

\* ------------------------------------------------------------------ C23
Digit == <<"0", "1", "2", "3", "4", "5", "6", "7", "8", "9">>

\* n in 0..99 written with two decimal digits.
TwoDigits(n) == Digit[(n \div 10) + 1] \o Digit[(n % 10) + 1]

\* round(n/d) for d > 0: the integer r with r - 1/2 <= n/d < r + 1/2 (a
\* tie goes up, as Math.round has it).
Rounded(n, d) ==
    CHOOSE r \in -200..200 : 2 * r * d - d <= 2 * n /\ 2 * n < 2 * r * d + d

\* clamp(50 + round(v * (s/100) * 49), 1, 99) for v in hundredths.
ClaimedAxis(v, s) ==
    LET a == 50 + Rounded(v * s * 49, 10000)
    IN  IF a < 1 THEN 1 ELSE IF a > 99 THEN 99 ELSE a

\* C23: for PTZ_VECTOR with a vector (x, y) and speed s in 0..100 the code
\* is PTS5050 when |x| < 0.02 and |y| < 0.02 and otherwise PTS{pan}{tilt}
\* with pan = clamp(50 + round(x*(s/100)*49), 1, 99) and tilt likewise from
\* y; vector (0.6, -0.6) at speed 100 gives PTS7921.
C23_VectorEncoding ==
    (cgiCall.fn = "mapCommandToCgi" /\ cgiCall.vector # NoVector /\ cgiParams # {}) =>
        LET x == cgiCall.vector.x
            y == cgiCall.vector.y
            s == cgiCall.speed
        IN  /\ cgiParams =
                 {IF Abs(x) < 2 /\ Abs(y) < 2
                  THEN "PTS5050"
                  ELSE "PTS" \o TwoDigits(ClaimedAxis(x, s)) \o TwoDigits(ClaimedAxis(y, s))}
            /\ (x = 60 /\ y = -60 /\ s = 100) => cgiParams = {"PTS7921"}

\* The code for vector (0.6, -0.6) at speed 100 has been built.
C23_Witness ==
    /\ cgiCall = [fn |-> "mapCommandToCgi", action |-> "PTZ_VECTOR", speed |-> 100,
                  vector |-> [x |-> 60, y |-> -60]]
    /\ cgiParams = {"PTS7921"}

\* ------------------------------------------------------------------ C24
\* A two-digit string for a pan, tilt or zoom value in 01..99.
AxisDigits(str) == str \in {TwoDigits(n) : n \in 1..99}

\* A two-digit string.
NumberDigits(str) == str \in {TwoDigits(n) : n \in 0..99}

\* P{nn}T{nn}, PTS{nn}{nn}, Z{nn}, R{nn} or M{nn}.
HasCodeForm(code) ==
    \/ /\ Len(code) = 6
       /\ SubSeq(code, 1, 1) = "P" /\ AxisDigits(SubSeq(code, 2, 3))
       /\ SubSeq(code, 4, 4) = "T" /\ AxisDigits(SubSeq(code, 5, 6))
    \/ /\ Len(code) = 7
       /\ SubSeq(code, 1, 3) = "PTS"
       /\ AxisDigits(SubSeq(code, 4, 5)) /\ AxisDigits(SubSeq(code, 6, 7))
    \/ /\ Len(code) = 3
       /\ SubSeq(code, 1, 1) = "Z" /\ AxisDigits(SubSeq(code, 2, 3))
    \/ /\ Len(code) = 3
       /\ SubSeq(code, 1, 1) \in {"R", "M"} /\ NumberDigits(SubSeq(code, 2, 3))

\* C24: every command code of the Panasonic adapter, the one of stop
\* included, has one of the forms P{nn}T{nn}, PTS{nn}{nn}, Z{nn}, R{nn},
\* M{nn} with two decimal digits per value and pan, tilt and zoom in
\* 01..99.
C24_CodeForms ==
    \A code \in cgiParams : HasCodeForm(code)

\* The part of C24 about sendCommand without the presets: the codes of the
\* motion, zoom, stop and vector actions have the forms PTS{nn}{nn} and
\* Z{nn} with values in 01..99.
C24_MotionCodeForms ==
    (cgiCall.fn = "mapCommandToCgi" /\ cgiCall.action \notin {"PRESET_CALL", "PRESET_SET"})
        => C24_CodeForms

\* The presets below 100 have the forms R{nn} and M{nn}.
C24_PresetCodeForms ==
    (cgiCall.fn = "mapCommandToCgi" /\ cgiCall.speed < 100) => C24_CodeForms

\* ------------------------------------------------------------------ C25
\* The connections of one device address that have not failed.
ConnectionsOf(key) ==
    {i \in DOMAIN connections :
        connections[i].key = key /\ connections[i].status # "failed"}

\* C25: for one ONVIF device address a connection is initialised at most
\* once (a failed initialisation apart, which is not cached), and the calls
\* to that address use the cached handle, whatever the interleaving of the
\* calls.
C25_ConnectOnce ==
    /\ \A key \in CacheKeys : Cardinality(ConnectionsOf(key)) <= 1
    /\ \A key \in CacheKeys : \A i \in deviceCache[key] :
           connections[i].key = key /\ connections[i].status = "ready"
    /\ \A c \in DOMAIN onvifCalls :
           onvifCalls[c].state \in {"requesting", "success"}
               => onvifCalls[c].device \in deviceCache[onvifCalls[c].key]

\* What holds of C25: only a handle whose init resolved is cached, under
\* its own address.
C25_FailedNotCached ==
    \A key \in CacheKeys : \A i \in deviceCache[key] :
        connections[i].key = key /\ connections[i].status = "ready"

\* What holds of C25: a call that finds a handle cached uses it and starts
\* no connection; a call that finds none starts one.
C25_CachedHandleReused ==
    [][Len(onvifCalls') = Len(onvifCalls) + 1 =>
          LET call == onvifCalls'[Len(onvifCalls')]
          IN  IF deviceCache[call.key] # {}
              THEN /\ connections' = connections
                   /\ call.device \in deviceCache[call.key]
              ELSE /\ Len(connections') = Len(connections) + 1
                   /\ call.device = Len(connections')]_vars

\* A call was made after a failed init of its address and connected again.
C25_ReconnectsAfterFailure ==
    \E i, j \in DOMAIN connections :
        /\ i < j
        /\ connections[i].key = connections[j].key
        /\ connections[i].status = "failed"
        /\ connections[j].status = "ready"

\* ------------------------------------------------------------------ C26
NdiShapes == <<"rest", "cgi", "post">>

\* The requests were made in the order REST, CGI, POST, each after all the
\* earlier ones raised.
TriedInOrder ==
    /\ Len(ndiRequests) <= 3
    /\ \A n \in DOMAIN ndiRequests :
          /\ ndiRequests[n].shape = NdiShapes[n]
          /\ n < Len(ndiRequests) => ndiRequests[n].status = "raised"

AllThreeRaised ==
    /\ Len(ndiRequests) = 3
    /\ \A n \in DOMAIN ndiRequests : ndiRequests[n].status = "raised"

\* The outcome of a call that went through the requests: success as soon as
\* one did not raise, a returned failure when all three raised, and nothing
\* before that.
OutcomeOfAttempts ==
    /\ (\E r \in ndiReturned : r.success)
           <=> (\E n \in DOMAIN ndiRequests : ndiRequests[n].status = "ok")
    /\ (\E r \in ndiReturned : ~r.success) <=> AllThreeRaised
    /\ ndiReturned = {}
           <=> (\E n \in DOMAIN ndiRequests : ndiRequests[n].status = "pending")

BuffersOf(c) ==
    LET RECURSIVE Collect(_)
        Collect(n) ==
            IF n = 0 THEN <<>>
            ELSE IF datagrams[n].call = c
                 THEN Append(Collect(n - 1), datagrams[n].buffer)
                 ELSE Collect(n - 1)
    IN  Collect(Len(datagrams))

PanTiltStopBuffer == <<129, 1, 6, 1, 3, 3, 3, 3, 255>>

ZoomStopBuffer == <<129, 1, 4, 7, 0, 255>>

\* C27: a VISCA STOP, by sendCommand or by stop(), that has returned has
\* transmitted two datagrams, the pan/tilt stop and then the zoom stop, and
\* the zoom stop is handed over only once the send of the pan/tilt stop has
\* settled.
C27_StopSendsBoth ==
    \A c \in DOMAIN viscaCalls :
        viscaCalls[c].action = "STOP" =>
            /\ viscaCalls[c].step = "returned" =>
                   BuffersOf(c) = <<PanTiltStopBuffer, ZoomStopBuffer>>
            /\ \A d, e \in DOMAIN datagrams :
                   (d < e /\ datagrams[d].call = c /\ datagrams[e].call = c)
                       => datagrams[d].promise # "pending"

\* What holds of C27: a STOP sends the pan/tilt stop first and nothing but
\* the zoom stop after it, the zoom stop only once the promise of the first
\* send has resolved; a STOP that returned success sent both.
C27_StopOrder ==
    \A c \in DOMAIN viscaCalls :
        viscaCalls[c].action = "STOP" =>
            /\ BuffersOf(c) \in {<<PanTiltStopBuffer>>,
                                 <<PanTiltStopBuffer, ZoomStopBuffer>>}
            /\ \A d, e \in DOMAIN datagrams :
                   (d < e /\ datagrams[d].call = c /\ datagrams[e].call = c)
                       => datagrams[d].promise = "resolved"
            /\ (\E r \in DOMAIN viscaReturned :
                    viscaReturned[r].call = c /\ viscaReturned[r].success)
                   => Len(BuffersOf(c)) = 2

\* A STOP by sendCommand, and likewise one by stop(), has sent its two
\* datagrams and returned success.
C27_SendCommandSentBoth ==
    \E c \in DOMAIN viscaCalls :
        /\ viscaCalls[c].fn = "sendCommand"
        /\ viscaCalls[c].action = "STOP"
        /\ BuffersOf(c) = <<PanTiltStopBuffer, ZoomStopBuffer>>
        /\ \E r \in DOMAIN viscaReturned :
               viscaReturned[r].call = c /\ viscaReturned[r].success

C27_StopSentBoth ==
    \E c \in DOMAIN viscaCalls :
        /\ viscaCalls[c].fn = "stop"
        /\ BuffersOf(c) = <<PanTiltStopBuffer, ZoomStopBuffer>>
        /\ \E r \in DOMAIN viscaReturned :
               viscaReturned[r].call = c /\ viscaReturned[r].success

\* ------------------------------------------------------------------ C31
\* The speed the adapter is to be given for a command: its own, or 50 when
\* it carries none.
SpeedOf(speed) == IF speed = NoSpeed THEN 50 ELSE speed

\* The send the step makes to ip for a command of the relay, if any.
HandedOver(ip) ==
    /\ Len(log'[ip]) = Len(log[ip]) + 1
    /\ ~log'[ip][Len(log'[ip])].forced

\* C31: the speed (or preset number) handed to the adapter is the speed of
\* the command, for every value in 0..100, and 50 when the command carries
\* no speed; both for a command sent on arrival and for one sent from the
\* pending slot.
C31_SpeedHandedOver ==
    [][\A ip \in Ips : HandedOver(ip) =>
          LET sent == log'[ip][Len(log'[ip])]
          IN  /\ \A cmd \in RoutedCommands :
                     (seq < MaxRouted /\ SendPtzCommand(cmd))
                         => sent.speed = SpeedOf(cmd.speed)
              /\ \A c \in devicePending[ip] :
                     c.seq = sent.seq => sent.speed = SpeedOf(c.speed)]_vars

\* What holds of C31: every speed from 1 to 100 is handed over as it is,
\* and a command without speed is sent with 50.
C31_NonZeroSpeedHandedOver ==
    [][\A ip \in Ips : HandedOver(ip) =>
          LET sent == log'[ip][Len(log'[ip])]
          IN  /\ \A cmd \in RoutedCommands :
                     (cmd.speed # 0 /\ seq < MaxRouted /\ SendPtzCommand(cmd))
                         => sent.speed = SpeedOf(cmd.speed)
              /\ \A c \in devicePending[ip] :
                     (c.speed # 0 /\ c.seq = sent.seq)
                         => sent.speed = SpeedOf(c.speed)]_vars

\* Preset 100 and a command without speed have been handed over.
C31_Handed100 ==
    \E ip \in Ips : \E n \in DOMAIN log[ip] :
        log[ip][n].action = "PRESET_CALL" /\ log[ip][n].speed = 100

\* ------------------------------------------------------------------ C32
\* The step hands the vector command cmd to the Panasonic camera ip.
VectorHandedOver(cmd, ip) ==
    /\ cmd.action = "PTZ_VECTOR"
    /\ ProtocolOf(ip) = "panasonic"
    /\ seq < MaxRouted
    /\ SendPtzCommand(cmd)
    /\ HandedOver(ip)

\* C32: a vector command routed to a Panasonic camera is encoded from its
\* vector, at the speed handed over: the code the adapter transmits is the
\* one mapCommandToCgi gives for that vector.
C32_VectorReachesAdapter ==
    [][\A cmd \in RoutedCommands, ip \in Ips :
          VectorHandedOver(cmd, ip) =>
              lastCmds'[ip] = {mapCommandToCgi("PTZ_VECTOR",
                                               log'[ip][Len(log'[ip])].speed,
                                               cmd.vector)}]_vars

\* What the router does instead: whatever its vector, the command is
\* transmitted as the neutral PTS5050.
C32_VectorSentNeutral ==
    [][\A cmd \in RoutedCommands, ip \in Ips :
          VectorHandedOver(cmd, ip) => lastCmds'[ip] = {<<"PTS", 50, 50>>}]_vars

\* A vector command has been sent to the Panasonic camera.
C32_VectorRouted ==
    \E ip \in Ips : \E n \in DOMAIN log[ip] :
        ProtocolOf(ip) = "panasonic" /\ log[ip][n].action = "PTZ_VECTOR"
                                     /\ log[ip][n].speed = 100

\* ------------------------------------------------------------------ C33
\* The action enumeration of a Command: pan-left, pan-right, tilt-up,
\* tilt-down, zoom-in, zoom-out, stop, preset-recall, preset-store and the
\* vector motion action.
CommandActions ==
    {"PAN_LEFT", "PAN_RIGHT", "TILT_UP", "TILT_DOWN", "ZOOM_IN", "ZOOM_OUT",
     "STOP", "PRESET_CALL", "PRESET_SET", "PTZ_VECTOR"}

\* C33: sanitizeCommand accepts a command exactly when its action, in any
\* letter case, is one of the ten of the enumeration.
C33_AllowListIsEnumeration ==
    \A r \in sanitized :
        r # JsNull <=> toUpperCase(payload.action.str) \in CommandActions

\* What holds of C33: the commands accepted are those whose action, in any
\* letter case, is one of the eight the allow-list names; preset-store and
\* the vector action are rejected like any action outside the enumeration.
C33_AllowListIsEight ==
    \A r \in sanitized :
        r # JsNull <=> toUpperCase(payload.action.str)
                           \in CommandActions \ {"PRESET_SET", "PTZ_VECTOR"}

\* A command in another letter case has been accepted.
C33_LowerCaseAccepted ==
    \E r \in sanitized : r # JsNull /\ payload.action.str = "Zoom_Out"

\* ------------------------------------------------------------------ C34
\* The codes transmitted to a Panasonic camera, in order: the sends of the
\* log that were not skipped as duplicates, encoded as the adapter does.
RECURSIVE Transmitted(_)
Transmitted(entries) ==
    IF entries = <<>> THEN <<>>
    ELSE LET e == entries[Len(entries)]
             before == Transmitted(SubSeq(entries, 1, Len(entries) - 1))
         IN  IF e.wire
             THEN Append(before, mapCommandToCgi(e.action, e.speed, NoVector))
             ELSE before

\* The zoom value last transmitted; 50 when none was.
RECURSIVE LastZoom(_)
LastZoom(codes) ==
    IF codes = <<>> THEN 50
    ELSE IF codes[Len(codes)][1] = "Z"
         THEN codes[Len(codes)][2]
         ELSE LastZoom(SubSeq(codes, 1, Len(codes) - 1))

\* The pan and tilt values last transmitted; neutral when none were.
RECURSIVE LastPanTilt(_)
LastPanTilt(codes) ==
    IF codes = <<>> THEN <<50, 50>>
    ELSE IF codes[Len(codes)][1] = "PTS"
         THEN <<codes[Len(codes)][2], codes[Len(codes)][3]>>
         ELSE LastPanTilt(SubSeq(codes, 1, Len(codes) - 1))

\* The latest send to ip is a STOP, of the operator or of the watchdog.
StopDelivered(ip) ==
    /\ ProtocolOf(ip) = "panasonic"
    /\ log[ip] # <<>>
    /\ log[ip][Len(log[ip])].action = "STOP"

\* C34: once a STOP has been delivered to a Panasonic camera through the
\* router, the pan, tilt and zoom values last transmitted to it are the
\* neutral 50, whatever was sent before.
C34_StopIsNeutral ==
    \A ip \in Ips : StopDelivered(ip) =>
        /\ LastPanTilt(Transmitted(log[ip])) = <<50, 50>>
        /\ LastZoom(Transmitted(log[ip])) = 50

\* What holds of C34: the STOP commands neutral on pan and tilt.
C34_StopIsNeutralOnPanTilt ==
    \A ip \in Ips : StopDelivered(ip) =>
        LastPanTilt(Transmitted(log[ip])) = <<50, 50>>

\* A forced STOP has been delivered after a zoom.
C34_ForcedStopAfterZoom ==
    \E ip \in Ips :
        /\ StopDelivered(ip)
        /\ log[ip][Len(log[ip])].forced
        /\ \E n \in DOMAIN log[ip] : log[ip][n].action = "ZOOM_IN"

\* ------------------------------------------------------------------ C35
\* A teardown finishes while a room is configured.  Every teardown under
\* way was begun by the /api/config or /api/stop call that preceded the
\* configuration of that room, so it is the teardown of an older room.
OldTeardownFinishes ==
    /\ stopping' < stopping
    /\ roomId # "null"

\* C35: the teardown of the old room, finishing after the GUI submitted a
\* new room and password, leaves the new room id and password in place and
\* the new room's command listener attached.
C35_TeardownSparesNewRoom ==
    [][OldTeardownFinishes =>
          /\ roomId' = roomId
          /\ roomPassword' = roomPassword
          /\ activeRoomRef' = activeRoomRef
          /\ roomId \in attached => roomId \in attached']_vars

\* What holds of C35: /api/config itself takes the new room id and
\* password and attaches the new room's command listener.
C35_ConfigTakesNewRoom ==
    [][stopping' >= stopping /\ roomId' # "null" /\ attached' # attached =>
          /\ roomId' \in attached'
          /\ activeRoomRef' = roomId']_vars

\* All teardowns have finished after a second room was submitted, and no
\* room is configured.
C35_NewRoomLost ==
    /\ stopping = 0
    /\ roomId = "null"
    /\ roomPassword = "null"
    /\ "r1" \in attached
    /\ "r2" \notin attached

\* ------------------------------------------------------------------ C36
\* The step replaces the registry entry under id by the entry of a device
\* with another value of IpOf.
OverwrittenBy(id, IpOf(_)) ==
    /\ discoveredDevices[id] # {}
    /\ discoveredDevices'[id] # {}
    /\ \E old \in discoveredDevices[id], new \in discoveredDevices'[id] :
           IpOf(old.ip) # IpOf(new.ip)

Address(ip) == ip

\* C36: with identifiers derived from the address, registering or
\* discovering a device never overwrites the registry entry of a device
\* with a different address.
C36_DistinctAddressesDistinctIds ==
    [][\A id \in DOMAIN discoveredDevices : ~OverwrittenBy(id, Address)]_vars

\* What holds of C36: an entry is overwritten only by a device whose
\* address has the same digits once the dots are removed.
C36_SameDigitsSameId ==
    [][\A id \in DOMAIN discoveredDevices : ~OverwrittenBy(id, IpDigits)]_vars

\* Two addresses with the same digits: the later device holds the entry.
C36_EntryTakenOver ==
    \E id \in DOMAIN discoveredDevices : \E e \in discoveredDevices[id] :
        e.ip = "10.0.11.1" /\ id = "100111"

\* ------------------------------------------------------------------ C37
\* The devices a discovery run reports: those of the discover() calls that
\* fulfilled.
ReportsOf(res) ==
    UNION {{res[i].value[n] : n \in DOMAIN res[i].value} :
               i \in {j \in DOMAIN res : res[j].status = "fulfilled"}}

IdOf(device) == IF device.mac # "" THEN device.mac ELSE IpDigits(device.ip)

\* The registry entry made from a report alone.
EntryOf(device) ==
    [id |-> IdOf(device), ip |-> device.ip, protocol |-> device.protocol]

\* C37: a run of autoDiscovery leaves every entry whose identifier is not in
\* the discovery result as it was, removes no entry, and puts under each
\* identifier of the result an entry made from a report of that identifier
\* alone; a run in which no discover() call fulfilled leaves the registry
\* unchanged.
C37_DiscoveryFrame ==
    [][\A res \in DiscoverResults : AutoDiscovery(res) =>
          /\ \A id \in DOMAIN discoveredDevices :
                 /\ id \notin {IdOf(d) : d \in ReportsOf(res)}
                        => discoveredDevices'[id] = discoveredDevices[id]
                 /\ discoveredDevices[id] # {} => discoveredDevices'[id] # {}
                 /\ id \in {IdOf(d) : d \in ReportsOf(res)}
                        => \E d \in ReportsOf(res) :
                               IdOf(d) = id /\ discoveredDevices'[id] = {EntryOf(d)}
          /\ (\A i \in DOMAIN res : res[i].status = "rejected")
                 => discoveredDevices' = discoveredDevices]_vars

\* A discovery has put the ONVIF camera in the registry, beside an entry
\* registered by hand that the run did not name.
C37_Witness ==
    /\ discoveredDevices["urn-2"] = {[id |-> "urn-2", ip |-> "10.0.0.2", protocol |-> "onvif"]}
    /\ discoveredDevices["10001"] = {[id |-> "10001", ip |-> "10.0.0.1", protocol |-> "rtsp"]}

\* ------------------------------------------------------------------ C38
\* C38: no datagram send calls socket.close() on its socket more than once:
\* the callback of socket.send and the 100 ms timer never both close it.
C38_ClosedOnce ==
    \A d \in DOMAIN datagrams : datagrams[d].closes <= 1

\* The promise of a datagram send is settled once: after the callback or the
\* timer has settled it, it keeps its outcome.
C38_SettledOnce ==
    [][\A d \in DOMAIN datagrams :
          datagrams[d].promise # "pending"
              => /\ d \in DOMAIN datagrams'
                 /\ datagrams'[d].promise = datagrams[d].promise]_vars

\* The callback of a send has run without error, and the timer after it.
C38_BothClosed ==
    \E d \in DOMAIN datagrams :
        /\ datagrams[d].callback = "ok"
        /\ datagrams[d].timedOut
        /\ datagrams[d].closes = 2

====
